---- MODULE Spec2Model ----
(***************************************************************************)
(* electron-fetch: the fetch orchestrator (index.js) and the Request model *)
(* (request.js) as a state machine of one exchange: the hops of a redirect *)
(* chain, the request timer, the cancellation signal, the transport events *)
(* and the response stream.                                                *)
(***************************************************************************)
EXTENDS Integers, Sequences, FiniteSets, TLC

\* ------------------------------------------------------------------ bounds
MaxFollow == 1
MaxChunks == 1
MaxParts == 2
MaxOps == 2
MaxWords == 3

MaxHops == MaxFollow + 1
Hops == 1..MaxHops

\* ------------------------------------------------------- program constants
DefaultFollow == 20

\* --------------------------------------------------------------- the data
Null == "null"
Undefined == "undefined"

\* parsed URLs: protocol, hostname, path (Null where the part is missing)
URL(p, h, q) == [protocol |-> p, hostname |-> h, path |-> q]
InputURLs == { URL("http:", "a", "/p"), URL(Null, Null, "/p"), URL("ftp:", "a", "/p"),
               URL("file:", Null, "/p") }
\* values a server puts in a Location header: none, a path, an absolute URL
NoLocation == URL(Null, Null, Null)
Locations == { NoLocation, URL(Null, Null, "/r"), URL("http:", "b", "/q") }

Statuses == { 200, 204, 301, 302, 303, 304, 307, 308 }
Encodings == { Null, "gzip", "x-gzip", "deflate", "x-deflate", "sdch" }
FirstBytes == { 120, 75 }
ErrorCodes == { "ECONNREFUSED" }

\* method, body and Content-Length header of the calls that are made
Call(m, b, c) == [ method |-> m, body |-> b, contentLength |-> c ]
Calls == { Call(Undefined, Null, Null), Call("HEAD", Null, Null), Call("POST", Null, "5"),
           Call("POST", "string", Null), Call("post", "stream", "5"),
           Call("PUT", "string", "5"), Call(Undefined, "string", Null),
           Call("get", "string", Null) }
\* the calls that are combined with every timeout, signal and transport
RaceCalls == { Call(Undefined, Null, Null), Call("POST", "string", Null) }
Methods == { c.method : c \in Calls }
Bodies == { c.body : c \in Calls }
ContentLengths == { c.contentLength : c \in Calls }
Redirects == { "follow", "manual", "error" }
NoNumber == 0 - 1
FollowOptions == { NoNumber } \cup (0..MaxFollow)
Timeouts == { 0, 100 }

\* the options a caller hands to fetch; NoNumber, Undefined and Null stand for
\* an option that is not given; credentials for user and password, onLogin
\* for a handler that calls preventDefault on the event it is given
Options ==
  [ url : InputURLs, method : Methods, body : Bodies, contentLength : ContentLengths,
    redirect : Redirects, follow : FollowOptions, timeout : Timeouts,
    signal : BOOLEAN, useElectronNet : BOOLEAN, agent : BOOLEAN, credentials : BOOLEAN,
    onLogin : BOOLEAN ]

\* the four headers getNodeRequestOptions has a default for, as the caller sets
\* them: Null for a header that is not set
Headers(a, u, e, c) == [ accept |-> a, userAgent |-> u, acceptEncoding |-> e, connection |-> c ]
NoHeaders == Headers(Null, Null, Null, Null)
CallerHeaders == { NoHeaders, Headers("text/html", "agent/1", "br", "keep-alive"),
                   Headers(Null, Null, "identity", Null) }

\* the options that are varied on the plain GET only; compress = TRUE also
\* stands for an option that is not given, size = 0 for no limit
Extra(h, c, s) == [ headers |-> h, compress |-> c, size |-> s ]
NoExtra == Extra(NoHeaders, TRUE, 0)
Extras == { Extra(h, TRUE, 0) : h \in CallerHeaders }
            \cup { Extra(NoHeaders, FALSE, 0), Extra(NoHeaders, TRUE, 1) }

\* isRedirect without the status code 308
isRedirect_No308(code) == code \in { 301, 302, 303, 307 }

isRedirect(code) == code \in { 301, 302, 303, 307, 308 }

resolveURL(from, to) ==
  IF to.protocol # Null THEN to
  ELSE [ protocol |-> from.protocol, hostname |-> from.hostname, path |-> to.path ]

toUpperCase(m) ==
  CASE m = "post" -> "POST"
    [] m = "put" -> "PUT"
    [] m = "get" -> "GET"
    [] m = "head" -> "HEAD"
    [] OTHER -> m

\* ------------------------------------------------------------- request.js
\* obj.f, or absent where the object has no property f
Field(obj, f, absent) == IF f \in DOMAIN obj THEN obj[f] ELSE absent

\* the signal a Request carries over from its init
RequestSignal(init) == Field(init, "signal", FALSE)

\* this.follow with || in the place of the tests for undefined
follow_Or(init, input) ==
  IF Field(init, "follow", NoNumber) \notin { NoNumber, 0 } THEN init.follow
  ELSE IF Field(input, "follow", NoNumber) \notin { NoNumber, 0 } THEN input.follow
  ELSE DefaultFollow

\* this.follow of a new Request: init.follow, else input.follow, else 20
follow(init, input) ==
  IF Field(init, "follow", NoNumber) # NoNumber THEN init.follow
  ELSE IF Field(input, "follow", NoNumber) # NoNumber THEN input.follow
  ELSE DefaultFollow

\* new Request(input, init) with input a URL or a Request and init the
\* caller's options or, on a redirect hop, the Request of the previous hop; a
\* property init does not have is an option that is not given.  The result is
\* the Request, or [error |-> "TypeError"] for a body given with GET or HEAD.
Request(input, init) ==
  LET isRequest == "counter" \in DOMAIN input
      from == IF isRequest THEN input ELSE [ url |-> input ]
      method == IF Field(init, "method", Undefined) # Undefined THEN init.method
                ELSE IF Field(from, "method", Undefined) # Undefined THEN from.method
                ELSE "GET"
      inputBody == IF Field(init, "body", Null) # Null THEN init.body
                   ELSE Field(from, "body", Null)
      headersOf == IF "headers" \in DOMAIN init THEN init
                   ELSE IF "headers" \in DOMAIN from THEN from
                   ELSE [ headers |-> NoHeaders, contentLength |-> Null ]
  IN IF inputBody # Null /\ method \in { "GET", "HEAD" }
       THEN [ error |-> "TypeError: Request with GET/HEAD method cannot have body" ]
     ELSE [ error |-> Null,
            url |-> from.url,
            method |-> toUpperCase(method),
            body |-> inputBody,
            timeout |-> IF Field(init, "timeout", 0) # 0 THEN init.timeout
                        ELSE Field(from, "timeout", 0),
            redirect |-> IF Field(init, "redirect", Undefined) # Undefined THEN init.redirect
                         ELSE IF Field(from, "redirect", Undefined) # Undefined
                           THEN from.redirect
                         ELSE "follow",
            size |-> IF Field(init, "size", 0) # 0 THEN init.size ELSE Field(from, "size", 0),
            headers |-> headersOf.headers,
            contentLength |-> headersOf.contentLength,
            useElectronNet |-> IF "useElectronNet" \in DOMAIN init THEN init.useElectronNet
                               ELSE Field(from, "useElectronNet", FALSE),
            follow |-> follow(init, from),
            counter |-> IF Field(init, "counter", 0) # 0 THEN init.counter
                        ELSE Field(from, "counter", 0),
            signal |-> RequestSignal(init) ]

\* the byte length of the bodies whose length is known before they are sent
KnownBodies == { "string", "empty", "buffer", "blob", "form" }
ByteLength ==
  [ b \in KnownBodies |->
      CASE b = "string" -> 3 [] b = "empty" -> 0 [] b = "buffer" -> 4 [] b = "blob" -> 5
        [] OTHER -> 6 ]

\* getTotalBytes of body.js: the length of a body when it is statically known
getTotalBytes(body) == IF body \in KnownBodies THEN ByteLength[body] ELSE NoNumber

\* contentLengthValue with a total of 0 bytes taken for no total
contentLengthValue_Truthy(request) ==
  IF request.body = Null
    THEN IF request.method \in { "POST", "PUT" } THEN "0" ELSE Null
  ELSE IF getTotalBytes(request.body) \notin { NoNumber, 0 }
    THEN ToString(getTotalBytes(request.body))
  ELSE Null

\* contentLengthValue with "0" for every Request without a body
contentLengthValue_AnyMethod(request) ==
  IF request.body = Null THEN "0"
  ELSE IF getTotalBytes(request.body) # NoNumber
    THEN ToString(getTotalBytes(request.body))
  ELSE Null

\* contentLengthValue of getNodeRequestOptions: "0" for POST and PUT without
\* a body, the total of the bytes of a body when it is known, else Null
contentLengthValue(request) ==
  IF request.body = Null
    THEN IF request.method \in { "POST", "PUT" } THEN "0" ELSE Null
  ELSE IF getTotalBytes(request.body) # NoNumber
    THEN ToString(getTotalBytes(request.body))
  ELSE Null

\* getNodeRequestOptions with the test of the protocol before the test for an
\* absolute URL
getNodeRequestOptions_ProtocolFirst(request) ==
  IF request.url.protocol \notin { "http:", "https:" }
    THEN [ error |-> "TypeError: Only HTTP(S) protocols are supported" ]
  ELSE [ error |-> "TypeError: Only absolute URLs are supported" ]

\* getNodeRequestOptions(request): the options handed to the transport, or
\* the TypeError it throws
getNodeRequestOptions(request) ==
  IF request.url.protocol = Null \/ request.url.hostname = Null
    THEN [ error |-> "TypeError: Only absolute URLs are supported" ]
  ELSE IF request.url.protocol \notin { "http:", "https:" }
    THEN [ error |-> "TypeError: Only HTTP(S) protocols are supported" ]
  ELSE LET value == contentLengthValue(request)
           headers == request.headers
       IN [ error |-> Null,
            url |-> request.url,
            method |-> request.method,
            body |-> request.body,
            headers |->
              Headers(IF headers.accept = Null THEN "*/*" ELSE headers.accept,
                      IF headers.userAgent # Null THEN headers.userAgent
                      ELSE IF request.useElectronNet
                        THEN "electron-fetch/1.0 electron (+https://github.com/arantes555/electron-fetch)"
                      ELSE "electron-fetch/1.0 node (+https://github.com/arantes555/electron-fetch)",
                      "gzip,deflate",
                      IF headers.connection = Null THEN "close" ELSE headers.connection),
            contentLength |-> IF value # Null THEN value ELSE request.contentLength,
            chunkedEncoding |-> value = Null ]

\* afterNodeRequestOptions with the headers set on request.headers itself
afterNodeRequestOptions_SharedHeaders(request) ==
  LET options == getNodeRequestOptions(request)
      names == DOMAIN request \cup { "chunkedEncoding" }
  IN IF options.error # Null THEN request
     ELSE [ f \in names |->
              CASE f = "chunkedEncoding" -> options.chunkedEncoding
                [] f = "headers" -> options.headers
                [] f = "contentLength" -> options.contentLength
                [] OTHER -> request[f] ]

\* the request once getNodeRequestOptions(request) has returned or thrown:
\* the headers are set on a new Headers(request.headers), and the request is
\* given chunkedEncoding when there is no Content-Length value
afterNodeRequestOptions(request) ==
  LET options == getNodeRequestOptions(request)
      names == DOMAIN request \cup { "chunkedEncoding" }
  IN IF options.error # Null THEN request
     ELSE IF ~options.chunkedEncoding THEN request
     ELSE [ f \in names |-> IF f = "chunkedEncoding" THEN TRUE ELSE request[f] ]

\* ------------------------------------------------------------ the state
VARIABLES
  args,        \* hop -> the arguments (url, opts) of the fetch call of the hop
  pc,          \* hop -> "none", "called" (executor queued behind isReady), "run"
  request,     \* hop -> the Request built by the hop
  req,         \* hop -> the transport request of the hop
  reqTimeout,  \* hop -> "none", "armed", "fired", "cleared"
  signal,      \* "none" (no signal given), "idle", "aborted"
  listeners,   \* the abort listeners registered on the signal, in order
  promise,     \* hop -> the promise returned by the fetch call of the hop
  res,         \* hop -> the response message of the hop and its stream
  body,        \* the body stream handed to the Response
  response,    \* the options the Response is built from
  consume,     \* the consumption of the response body by the caller
  firstEvent,  \* hop -> the first event of the hop that was handled
  startSignal, \* hop -> the state of the signal when the executor of the hop ran
  bodies,      \* the Body of a Response and of its clone, as they are consumed
  source,      \* the stream the Body of a Response is read from
  made,        \* the Requests a caller builds and the options of the last one
  heap,        \* the Headers objects a caller holds and the references to them
  thrown       \* the FetchError a caller or the fetch builds, and what it is built from

vars == << args, pc, request, req, reqTimeout, signal, listeners, promise, res,
           body, response, consume, firstEvent, startSignal, bodies, source,
           made, heap, thrown >>

\* the variables of an exchange
fetchVars == << args, pc, request, req, reqTimeout, signal, listeners, promise, res,
                body, response, consume, firstEvent, startSignal >>

NoURL == URL(Null, Null, Null)
NoArgs == [ url |-> NoURL ]
NoRequest == [ error |-> "none" ]
NoReq == [ state |-> "none", responded |-> FALSE, errored |-> FALSE, abortEmitted |-> FALSE ]
NoRes == [ stream |-> "none" ]
NoBody == [ kind |-> Null, raw |-> FALSE, error |-> Null, cancelOnError |-> FALSE ]
NoResponse == [ hop |-> 0 ]
NoInit == [ method |-> Undefined ]
NoOptions == [ error |-> "none" ]
NoMade == [ step |-> "none", url |-> NoURL, init |-> NoInit, r1 |-> NoRequest,
            over |-> NoInit, r2 |-> NoRequest, options |-> NoOptions,
            after |-> NoRequest ]
NoHeap == [ step |-> "none" ]
NoThrown == [ step |-> "none" ]
Promise(state, type, code, message) ==
  [ state |-> state, type |-> type, code |-> code, message |-> message ]
NoPromise == Promise("none", Null, Null, Null)
Pending == Promise("pending", Null, Null, Null)
Following == Promise("follows", Null, Null, Null)

\* the part of the state the handlers work on
State ==
  [ args |-> args, pc |-> pc, request |-> request, req |-> req,
    reqTimeout |-> reqTimeout, listeners |-> listeners, promise |-> promise,
    res |-> res, body |-> body, response |-> response, consume |-> consume ]

Becomes(st) ==
  /\ args' = st.args
  /\ pc' = st.pc
  /\ request' = st.request
  /\ req' = st.req
  /\ reqTimeout' = st.reqTimeout
  /\ listeners' = st.listeners
  /\ promise' = st.promise
  /\ res' = st.res
  /\ body' = st.body
  /\ response' = st.response
  /\ consume' = st.consume
  /\ UNCHANGED << bodies, source, made, heap, thrown >>

\* ------------------------------------------------------------- body.js
\* the Body mixed into a Response (1) and into its clone (2)
Instances == 1..2
BodyMethods == { "text", "json", "buffer", "arrayBuffer", "blob" }
ChunkLengths == 1..2
Sizes == 0..3

\* the bodies a server sends: at most MaxParts chunks
Sources == UNION { [ 1..n -> ChunkLengths ] : n \in 0..MaxParts }

RECURSIVE Sum(_)
Sum(seq) == IF seq = << >> THEN 0 ELSE Head(seq) + Sum(Tail(seq))

NoSource == [ chunks |-> << >>, ended |-> TRUE, total |-> 0 ]
NoInstance ==
  [ exists |-> FALSE, used |-> FALSE, size |-> 0, queue |-> << >>, accum |-> 0,
    result |-> "none", method |-> Null, delivered |-> 0, accepted |-> 0, rejected |-> 0,
    cloneThrew |-> FALSE ]

\* Body.call(this, body, {size, timeout}): bodyUsed is false, nothing is read
Body(size) == [ NoInstance EXCEPT !.exists = TRUE, !.size = size ]

\* consumeBody without the use-once flag
consumeBody_NoFlag(b, m) ==
  [ b EXCEPT !.accepted = @ + 1, !.result = "pending", !.method = m ]

\* consumeBody, behind text, json, buffer, arrayBuffer and blob: a call on a
\* used body fails with 'body used already', the first call starts the drain
consumeBody(b, m) ==
  IF b.used THEN [ b EXCEPT !.rejected = @ + 1 ]
  ELSE [ b EXCEPT !.used = TRUE, !.accepted = @ + 1, !.result = "pending", !.method = m ]

\* clone that starts the second branch behind what the body has buffered
clone_Late(b) == [ b EXCEPT !.queue = << >> ]

\* clone(instance) of an unused body: the stream is piped into two branches,
\* each gets what is buffered and what follows
clone(b) == b

\* the drain of a consumption reads a chunk of len bytes
onData(b, len) ==
  IF b.size # 0 /\ b.accum + len > b.size
    THEN [ b EXCEPT !.queue = << >>, !.result = "max-size" ]
  ELSE [ b EXCEPT !.queue = Tail(@), !.accum = @ + len ]

\* the drain of a consumption reaches the end of the stream
onBodyEnd(b) == [ b EXCEPT !.result = "resolved", !.delivered = b.accum ]

\* ------------------------------------------------ promises and listeners
\* resolve and reject of a promise: only the first call has an effect
settle(st, h, outcome) ==
  IF st.promise[h].state = "pending" THEN [ st EXCEPT !.promise[h] = outcome ] ELSE st

\* reject(new FetchError(message, type, systemError))
reject(st, h, type, code) == settle(st, h, Promise("rejected", type, code, Null))

\* an exception thrown by the executor, or reject(new Error(message))
rejectError(st, h, type, message) == settle(st, h, Promise("rejected", type, Null, message))

\* resolve(response)
resolve(st, h) == settle(st, h, Promise("fulfilled", Null, Null, Null))

Listener(h, fn) == [ hop |-> h, fn |-> fn ]

RECURSIVE Without(_, _)
Without(seq, l) ==
  IF seq = << >> THEN << >>
  ELSE IF Head(seq) = l THEN Without(Tail(seq), l)
  ELSE << Head(seq) >> \o Without(Tail(seq), l)

Registered(st, l) == \E i \in 1..Len(st.listeners) : st.listeners[i] = l

addEventListener(st, l) ==
  IF Registered(st, l) THEN st ELSE [ st EXCEPT !.listeners = Append(@, l) ]

removeEventListener(st, l) == [ st EXCEPT !.listeners = Without(@, l) ]

\* clearTimeout that leaves the timer armed
clearTimeout_Armed(st, h) == st

clearTimeout(st, h) ==
  [ st EXCEPT !.reqTimeout[h] = IF @ = "armed" THEN "cleared" ELSE @ ]

\* ------------------------------------------------------------ FetchError
\* a message is one line of text, kept as the sequence of its words;
\* NetMarker is the text net:: that the regular expression looks for
NetMarker == "net::"

\* an error of a transport: its code and, when its message is net::NAME, NAME
Err(code, net) == [ code |-> code, net |-> net ]
NoErr == Err(Null, Null)

\* a systemError argument that is not given
NoSystemError == [ undefined |-> TRUE ]

\* err.message of the error a transport emits, or of the FetchError that
\* abortRequest emits on the request
errMessage(err) ==
  IF err.net # Null THEN << NetMarker, err.net >>
  ELSE IF err.code # Null THEN << "connect", err.code >>
  ELSE << "request aborted" >>

netErrorMap(errorCode) ==
  CASE errorCode = "ERR_CONNECTION_REFUSED" -> "ECONNREFUSED"
    [] errorCode = "ERR_EMPTY_RESPONSE" -> "ECONNRESET"
    [] errorCode = "ERR_NAME_NOT_RESOLVED" -> "ENOTFOUND"
    [] errorCode = "ERR_CONTENT_DECODING_FAILED" -> "Z_DATA_ERROR"
    [] errorCode = "ERR_CONTENT_DECODING_INIT_FAILED" -> "Z_DATA_ERROR"
    [] OTHER -> errorCode

\* the text the words of a message make
RECURSIVE text(_)
text(words) == IF words = << >> THEN "" ELSE Head(words) \o text(Tail(words))

\* /^.*net::(.*)/ is greedy: it matches up to the last net:: of the message;
\* lastNet is the place of that net::, 0 when the message has none
lastNet(message) ==
  LET found == { i \in 1..Len(message) : message[i] = NetMarker }
  IN IF found = { } THEN 0 ELSE CHOOSE i \in found : \A j \in found : j <= i

\* regex.test(message)
test(message) == lastNet(message) # 0

\* regex.exec(message)[1]: the text after the last net::
exec(message) == text(SubSeq(message, lastNet(message) + 1, Len(message)))

\* FetchError without netErrorMap
FetchError_Unmapped(message, type, systemError) ==
  LET sys == IF test(message) THEN [ code |-> exec(message) ] ELSE systemError
  IN IF "undefined" \in DOMAIN sys THEN [ message |-> message, type |-> type ]
     ELSE [ message |-> message, type |-> type,
            code |-> Field(sys, "code", Undefined),
            errno |-> Field(sys, "code", Undefined) ]

\* new FetchError(message, type, systemError): the fields of the error
FetchError(message, type, systemError) ==
  LET sys == IF test(message) THEN [ code |-> netErrorMap(exec(message)) ]
             ELSE systemError
  IN IF "undefined" \in DOMAIN sys THEN [ message |-> message, type |-> type ]
     ELSE [ message |-> message, type |-> type,
            code |-> Field(sys, "code", Undefined),
            errno |-> Field(sys, "code", Undefined) ]

\* request.url, the text formatURL makes of the parsed URL
formatURL(url) == << url.protocol, "//", url.hostname, url.path >>

\* the message of the error that req.on('error') rejects with
requestFailed(url, err) ==
  << "request to" >> \o url \o << "failed, reason:" >> \o errMessage(err)

\* the FetchError the fetch rejects with, by its type: url is request.url and
\* err the error of the transport
orchestratorError(type, url, err) ==
  CASE type = "abort" -> FetchError(<< "request aborted" >>, "abort", NoSystemError)
    [] type = "request-timeout" ->
         FetchError(<< "network timeout at:" >> \o url, "request-timeout", NoSystemError)
    [] type = "proxy" ->
         FetchError(<< "login event received from", "proxy",
                       "but no credentials provided" >>,
                    "proxy", [ code |-> "PROXY_AUTH_FAILED" ])
    [] type = "system" -> FetchError(requestFailed(url, err), "system", err)
    [] type = "no-redirect" ->
         FetchError(<< "redirect mode is set to error:" >> \o url, "no-redirect",
                    NoSystemError)
    [] type = "max-redirect" ->
         FetchError(<< "maximum redirect reached at:" >> \o url, "max-redirect",
                    NoSystemError)
    [] type = "invalid-redirect" ->
         FetchError(<< "redirect location header missing at:" >> \o url,
                    "invalid-redirect", NoSystemError)

\* the error the transport of a request emits for the failure code: Node sets
\* err.code, Electron puts the name of the net error into err.message
transportError(useElectronNet, code) ==
  IF ~useElectronNet THEN Err(code, Null)
  ELSE Err(Null, CASE code = "ECONNREFUSED" -> "ERR_CONNECTION_REFUSED"
                   [] code = "ECONNRESET" -> "ERR_EMPTY_RESPONSE"
                   [] code = "ENOTFOUND" -> "ERR_NAME_NOT_RESOLVED"
                   [] OTHER -> code)

\* the FetchError of type system for the error err of the transport, when
\* request.url holds no net:: : the text the regular expression captures is
\* then the NAME of an err.message net::NAME
systemFetchError(err) ==
  [ type |-> "system",
    code |-> IF err.net # Null THEN netErrorMap(err.net) ELSE err.code,
    errno |-> IF err.net # Null THEN netErrorMap(err.net) ELSE err.code ]

\* ----------------------------------------------------- index.js: handlers
\* cancelRequest: req.abort() on Electron, req.destroy() on Node
cancelRequest(st, h) ==
  IF st.req[h].state # "open" THEN st
  ELSE [ st EXCEPT !.req[h].state =
           IF st.request[h].useElectronNet THEN "aborted" ELSE "destroyed" ]

\* req.on('error', ...)
onError(st, h, err) ==
  LET s1 == clearTimeout(st, h)
      s2 == IF s1.request[h].signal
              THEN removeEventListener(s1, Listener(h, "abortRequest")) ELSE s1
      e == systemFetchError(err)
  IN reject(s2, h, e.type, e.code)

\* abortRequest, the listener of the signal before the response
abortRequest(st, h) ==
  LET s1 == reject(st, h, "abort", Null)
      s2 == cancelRequest(s1, h)
  IN onError(s2, h, NoErr)

\* onTimeout without cancelRequest()
onTimeout_NoCancel(st, h) ==
  reject([ st EXCEPT !.reqTimeout[h] = "fired" ], h, "request-timeout", Null)

\* the callback of the request timer
onTimeout(st, h) ==
  LET s1 == [ st EXCEPT !.reqTimeout[h] = "fired" ]
      s2 == reject(s1, h, "request-timeout", Null)
  IN cancelRequest(s2, h)

\* req.on('abort', ...)
onAbort(st, h) ==
  LET s1 == clearTimeout(st, h)
  IN IF s1.request[h].signal
       THEN removeEventListener(s1, Listener(h, "abortRequest")) ELSE s1

\* req.on('login', ...) of the Electron transport
onLogin(st, h) ==
  IF "credentials" \in DOMAIN st.args[h].opts /\ st.args[h].opts.credentials THEN st
  ELSE reject(cancelRequest(st, h), h, "proxy", "PROXY_AUTH_FAILED")

\* the recursive call fetch(url, request) of a followed redirect, and
\* resolve(...) with the promise it returns
followRedirect(st, h, url, opts) ==
  LET s1 == [ st EXCEPT !.args[h + 1] = [ url |-> url, opts |-> opts ],
                        !.pc[h + 1] = "called",
                        !.promise[h + 1] = Pending ]
  IN settle(s1, h, Following)

\* coding without the exception for the status codes 204 and 304
coding_AnyStatus(rq, r) ==
  IF /\ ~rq.useElectronNet
     /\ rq.method # "HEAD"
     /\ r.encoding # Null
    THEN IF r.encoding \in { "gzip", "x-gzip" } THEN "Gunzip"
         ELSE IF r.encoding \in { "deflate", "x-deflate" } THEN "deflate"
         ELSE "PassThrough"
  ELSE "PassThrough"

\* the content coding applied to the body of a final response
coding(rq, r) ==
  IF /\ ~rq.useElectronNet
     /\ rq.method # "HEAD"
     /\ r.encoding # Null
     /\ r.statusCode # 204
     /\ r.statusCode # 304
    THEN IF r.encoding \in { "gzip", "x-gzip" } THEN "Gunzip"
         ELSE IF r.encoding \in { "deflate", "x-deflate" } THEN "deflate"
         ELSE "PassThrough"
  ELSE "PassThrough"

\* responseLocation without the resolution of manual mode
responseLocation_Raw(rq, r) == r.location

\* the headers of the Response: Location is resolved in manual mode
responseLocation(rq, r) ==
  IF rq.redirect = "manual" /\ r.location # NoLocation
    THEN resolveURL(rq.url, r.location)
  ELSE r.location

\* finalResponse without the size in the options of the Response
finalResponse_NoSize(st, h, r) ==
  LET rq == st.request[h]
      s1 == [ st EXCEPT !.res[h].stream = "flowing",
                        !.body = [ kind |-> "PassThrough", raw |-> FALSE,
                                   error |-> Null, cancelOnError |-> TRUE ] ]
      s2 == IF rq.signal THEN addEventListener(s1, Listener(h, "abortBody")) ELSE s1
      s3 == [ s2 EXCEPT !.response =
                [ hop |-> h, url |-> rq.url, status |-> r.statusCode,
                  location |-> responseLocation(rq, r), encoding |-> r.encoding,
                  size |-> 0, timeout |-> rq.timeout,
                  useElectronNet |-> rq.useElectronNet ] ]
  IN CASE coding(rq, r) = "Gunzip" ->
            resolve([ s3 EXCEPT !.body.kind = "Gunzip", !.body.cancelOnError = FALSE ], h)
       [] coding(rq, r) = "deflate" ->
            [ s3 EXCEPT !.body.raw = TRUE ]
       [] OTHER -> resolve(s3, h)

\* req.on('response', ...) for a response that is not a followed redirect
finalResponse(st, h, r) ==
  LET rq == st.request[h]
      s1 == [ st EXCEPT !.res[h].stream = "flowing",
                        !.body = [ kind |-> "PassThrough", raw |-> FALSE,
                                   error |-> Null, cancelOnError |-> TRUE ] ]
      s2 == IF rq.signal THEN addEventListener(s1, Listener(h, "abortBody")) ELSE s1
      s3 == [ s2 EXCEPT !.response =
                [ hop |-> h, url |-> rq.url, status |-> r.statusCode,
                  location |-> responseLocation(rq, r), encoding |-> r.encoding,
                  size |-> rq.size, timeout |-> rq.timeout,
                  useElectronNet |-> rq.useElectronNet ] ]
  IN CASE coding(rq, r) = "Gunzip" ->
            resolve([ s3 EXCEPT !.body.kind = "Gunzip", !.body.cancelOnError = FALSE ], h)
       [] coding(rq, r) = "deflate" ->
            [ s3 EXCEPT !.body.raw = TRUE ]
       [] OTHER -> resolve(s3, h)

\* redirectError with request.counter > request.follow
redirectError_OffByOne(rq, r) ==
  IF rq.redirect = "error" THEN "no-redirect"
  ELSE IF rq.counter > rq.follow THEN "max-redirect"
  ELSE IF r.location = NoLocation THEN "invalid-redirect"
  ELSE Null

\* redirectError with the Location check before the counter check
redirectError_LocationFirst(rq, r) ==
  IF rq.redirect = "error" THEN "no-redirect"
  ELSE IF r.location = NoLocation THEN "invalid-redirect"
  ELSE IF rq.counter >= rq.follow THEN "max-redirect"
  ELSE Null

\* the rejection of a redirect response that is not followed, or Null
redirectError(rq, r) ==
  IF rq.redirect = "error" THEN "no-redirect"
  ELSE IF rq.counter >= rq.follow THEN "max-redirect"
  ELSE IF r.location = NoLocation THEN "invalid-redirect"
  ELSE Null

\* nextRequest with the rewrite to GET for every method on 301 and 302
nextRequest_AnyMethod(rq, r) ==
  LET rq2 == IF r.statusCode \in { 301, 302, 303 }
               THEN [ rq EXCEPT !.method = "GET", !.body = Null, !.contentLength = Null ]
             ELSE rq
  IN [ rq2 EXCEPT !.counter = @ + 1 ]

\* nextRequest without request.counter++
nextRequest_NoCount(rq, r) ==
  IF \/ r.statusCode = 303
     \/ r.statusCode \in { 301, 302 } /\ rq.method = "POST"
    THEN [ rq EXCEPT !.method = "GET", !.body = Null, !.contentLength = Null ]
  ELSE rq

\* nextRequest without request.headers.delete('content-length')
nextRequest_KeepLength(rq, r) ==
  LET rq2 == IF \/ r.statusCode = 303
                \/ r.statusCode \in { 301, 302 } /\ rq.method = "POST"
               THEN [ rq EXCEPT !.method = "GET", !.body = Null ]
             ELSE rq
  IN [ rq2 EXCEPT !.counter = @ + 1 ]

\* the request after the redirect rewrite and request.counter++
nextRequest(rq, r) ==
  LET rq2 == IF \/ r.statusCode = 303
                \/ r.statusCode \in { 301, 302 } /\ rq.method = "POST"
               THEN [ rq EXCEPT !.method = "GET", !.body = Null, !.contentLength = Null ]
             ELSE rq
  IN [ rq2 EXCEPT !.counter = @ + 1 ]

\* req.on('response', ...)
onResponse(st, h, r) ==
  LET s1 == clearTimeout(st, h)
      s2 == IF s1.request[h].signal
              THEN removeEventListener(s1, Listener(h, "abortRequest")) ELSE s1
      s3 == [ s2 EXCEPT !.req[h].responded = TRUE,
                        !.res[h] = [ stream |-> "unread", statusCode |-> r.statusCode,
                                     location |-> r.location, chunks |-> 0 ] ]
      rq == s3.request[h]
  IN IF isRedirect(r.statusCode) /\ rq.redirect # "manual"
       THEN IF redirectError(rq, r) # Null
              THEN reject(s3, h, redirectError(rq, r), Null)
            ELSE LET s4 == [ s3 EXCEPT !.request[h] = nextRequest(rq, r) ]
                 IN followRedirect(s4, h, resolveURL(s4.request[h].url, r.location),
                                   s4.request[h])
     ELSE finalResponse(s3, h, r)

\* a & b of two bytes
RECURSIVE BitAnd(_, _)
BitAnd(a, b) ==
  IF a = 0 \/ b = 0 THEN 0
  ELSE (a % 2) * (b % 2) + 2 * BitAnd(a \div 2, b \div 2)

\* onFirstChunk that takes every deflate body for a zlib stream
onFirstChunk_Inflate(st, h, b) ==
  resolve([ st EXCEPT !.body.raw = FALSE,
                      !.body.cancelOnError = FALSE,
                      !.body.kind = "Inflate" ], h)

\* raw.once('data', ...) of the deflate branch: b is the first byte
onFirstChunk(st, h, b) ==
  LET s1 == [ st EXCEPT !.body.raw = FALSE,
                        !.body.cancelOnError = FALSE,
                        !.body.kind = IF BitAnd(b, 15) = 8 THEN "Inflate"
                                      ELSE "InflateRaw" ]
  IN resolve(s1, h)

\* consumeBody of body.js: an error of the body stream fails the consumption
\* that is under way
bodyError(st, type) ==
  IF st.consume = "pending" THEN [ st EXCEPT !.consume = type ] ELSE st

\* res.emit('error', err): the two listeners of the response handler
onResError(st, h, type) ==
  LET s1 == [ st EXCEPT !.body.error = IF @ = Null THEN type ELSE @ ]
      s2 == IF s1.body.cancelOnError THEN cancelRequest(s1, h) ELSE s1
      s3 == bodyError(s2, type)
  IN IF s3.request[h].signal
       THEN removeEventListener(s3, Listener(h, "abortBody")) ELSE s3

\* abortBody without res.destroy()
abortBody_NoDestroy(st, h) == onResError(st, h, "abort")

\* abortBody, the listener of the signal after the response
abortBody(st, h) ==
  onResError([ st EXCEPT !.res[h].stream = "destroyed" ], h, "abort")

\* res.on('end', ...)
onEnd(st, h) ==
  LET s1 == [ st EXCEPT !.res[h].stream = "ended" ]
      s2 == IF s1.request[h].signal
              THEN removeEventListener(s1, Listener(h, "abortBody")) ELSE s1
  IN IF s2.consume = "pending" /\ s2.body.error = Null
       THEN [ s2 EXCEPT !.consume = "resolved" ] ELSE s2

\* send(options) and what the executor registers on the request
send(st, h, options) ==
  LET rq == st.request[h]
      s1 == [ st EXCEPT !.req[h] =
                [ state |-> "open", responded |-> FALSE, errored |-> FALSE,
                  abortEmitted |-> FALSE, options |-> options ] ]
      s2 == IF rq.signal THEN addEventListener(s1, Listener(h, "abortRequest")) ELSE s1
  IN IF rq.timeout # 0 THEN [ s2 EXCEPT !.reqTimeout[h] = "armed" ] ELSE s2

\* executor without the check of request.signal.aborted
executor_NoAbortCheck(st, h, sig) ==
  LET a == st.args[h]
      rq == Request(a.url, a.opts)
      options == getNodeRequestOptions(rq)
      s0 == [ st EXCEPT !.pc[h] = "run" ]
      s1 == [ s0 EXCEPT !.request[h] = rq ]
  IN IF rq.error # Null THEN rejectError(s0, h, "TypeError", rq.error)
     ELSE IF options.error # Null THEN rejectError(s1, h, "TypeError", options.error)
     ELSE IF rq.useElectronNet /\ "agent" \in DOMAIN a.opts /\ a.opts.agent
       THEN send(rejectError(s1, h, "Error", "agent option with useElectronNet"), h, options)
     ELSE send(s1, h, options)

\* the executor of the promise of fetch(url, opts), run once isReady resolves
executor(st, h, sig) ==
  LET a == st.args[h]
      rq == Request(a.url, a.opts)
      options == getNodeRequestOptions(rq)
      s0 == [ st EXCEPT !.pc[h] = "run" ]
      s1 == [ s0 EXCEPT !.request[h] = rq ]
  IN IF rq.error # Null THEN rejectError(s0, h, "TypeError", rq.error)
     ELSE IF options.error # Null THEN rejectError(s1, h, "TypeError", options.error)
     ELSE IF rq.signal /\ sig = "aborted" THEN reject(s1, h, "abort", Null)
     ELSE IF rq.useElectronNet /\ "agent" \in DOMAIN a.opts /\ a.opts.agent
       THEN send(rejectError(s1, h, "Error", "agent option with useElectronNet"), h, options)
     ELSE send(s1, h, options)

\* the signal dispatches 'abort' to the listeners registered when it fires
RECURSIVE dispatch(_, _)
dispatch(st, ls) ==
  IF ls = << >> THEN st
  ELSE LET l == Head(ls)
           s1 == IF ~Registered(st, l) THEN st
                 ELSE IF l.fn = "abortRequest" THEN abortRequest(st, l.hop)
                 ELSE abortBody(st, l.hop)
       IN dispatch(s1, Tail(ls))

\* ------------------------------------------------------------ the actions
\* the first event of a hop that is handled
First(h, e) == firstEvent' = [ firstEvent EXCEPT ![h] = IF @ = "none" THEN e ELSE @ ]

\* fetch(url, opts) has been called: the executor is queued
Init ==
  \E o \in Options : \E x \in Extras :
    /\ Call(o.method, o.body, o.contentLength) \in Calls
    /\ x # NoExtra =>
         /\ Call(o.method, o.body, o.contentLength) = Call(Undefined, Null, Null)
         /\ o.url.protocol = "http:" /\ o.redirect = "follow" /\ o.follow = NoNumber
         /\ o.timeout = 0 /\ ~o.signal /\ ~o.agent /\ ~o.credentials
    /\ \/ Call(o.method, o.body, o.contentLength) \in RaceCalls
       \/ o.timeout = 0 /\ ~o.signal /\ ~o.useElectronNet
    /\ o.follow # NoNumber => o.redirect = "follow"
    /\ o.agent => o.useElectronNet
    /\ o.credentials => o.useElectronNet /\ ~o.agent
    /\ o.onLogin =>
         /\ Call(o.method, o.body, o.contentLength) = Call(Undefined, Null, Null)
         /\ o.useElectronNet /\ ~o.agent /\ ~o.credentials
         /\ o.redirect = "follow" /\ o.follow = NoNumber /\ o.timeout = 0 /\ ~o.signal
    /\ o.url.protocol # "http:" =>
         o.redirect = "follow" /\ o.follow = NoNumber /\ ~o.useElectronNet
    /\ args = [ h \in Hops |-> IF h = 1 THEN [ url |-> o.url, opts |-> o @@ x ] ELSE NoArgs ]
    /\ pc = [ h \in Hops |-> IF h = 1 THEN "called" ELSE "none" ]
    /\ request = [ h \in Hops |-> NoRequest ]
    /\ req = [ h \in Hops |-> NoReq ]
    /\ reqTimeout = [ h \in Hops |-> "none" ]
    /\ signal \in IF o.signal THEN { "idle", "aborted" } ELSE { "none" }
    /\ listeners = << >>
    /\ promise = [ h \in Hops |-> IF h = 1 THEN Pending ELSE NoPromise ]
    /\ res = [ h \in Hops |-> NoRes ]
    /\ body = NoBody
    /\ response = NoResponse
    /\ consume = "none"
    /\ firstEvent = [ h \in Hops |-> "none" ]
    /\ startSignal = [ h \in Hops |-> "unset" ]
    /\ bodies = [ i \in Instances |-> NoInstance ]
    /\ source = NoSource
    /\ thrown = NoThrown
    /\ made = NoMade
    /\ heap = NoHeap

\* the executor of hop h runs
StartHop(h) ==
  /\ pc[h] = "called"
  /\ Becomes(executor(State, h, signal))
  /\ startSignal' = [ startSignal EXCEPT ![h] = signal ]
  /\ UNCHANGED << signal, firstEvent >>

\* the request timer of hop h fires
TimeoutFires(h) ==
  /\ reqTimeout[h] = "armed"
  /\ Becomes(onTimeout(State, h))
  /\ First(h, "timeout")
  /\ UNCHANGED << signal, startSignal >>

\* the caller aborts the signal
SignalAbort ==
  /\ signal = "idle"
  /\ signal' = "aborted"
  /\ Becomes(dispatch(State, listeners))
  /\ firstEvent' = [ h \in Hops |->
       IF firstEvent[h] = "none" /\ Registered(State, Listener(h, "abortRequest"))
         THEN "abort" ELSE firstEvent[h] ]
  /\ UNCHANGED startSignal

\* the transport emits 'error' on the request of hop h: a network failure
\* while the request is open, or the socket hang up of a request that was
\* destroyed before its response
TransportError(h, code) ==
  /\ ~req[h].errored
  /\ \/ req[h].state = "open" /\ ~req[h].responded
     \/ req[h].state = "open" /\ res[h].stream = "flowing" /\ code = "ECONNRESET"
     \/ req[h].state = "destroyed" /\ ~req[h].responded /\ code = "ECONNRESET"
  /\ LET s1 == [ State EXCEPT !.req[h].errored = TRUE,
                              !.req[h].state = IF @ = "open" THEN "closed" ELSE @ ]
     IN Becomes(onError(s1, h, transportError(request[h].useElectronNet, code)))
  /\ First(h, "error")
  /\ UNCHANGED << signal, startSignal >>

\* the transport emits 'response' on the request of hop h.  The Electron
\* transport follows a redirect with a Location itself and never delivers it.
TransportResponse(h, r) ==
  /\ req[h].state = "open"
  /\ ~req[h].responded
  /\ request[h].useElectronNet => ~(isRedirect(r.statusCode) /\ r.location # NoLocation)
  /\ h = MaxHops =>
       ~(/\ isRedirect(r.statusCode)
         /\ request[h].redirect = "follow"
         /\ request[h].counter < request[h].follow
         /\ r.location # NoLocation)
  /\ Becomes(onResponse(State, h, r))
  /\ First(h, "response")
  /\ UNCHANGED << signal, startSignal >>

\* the Electron transport emits 'login' on the request of hop h
TransportLogin(h) ==
  /\ request[h].error = Null
  /\ request[h].useElectronNet
  /\ req[h].state = "open"
  /\ ~req[h].responded
  /\ Becomes(onLogin(State, h))
  /\ First(h, "login")
  /\ UNCHANGED << signal, startSignal >>

\* the Electron transport emits 'abort' on a request that was aborted
TransportAbort(h) ==
  /\ req[h].state = "aborted"
  /\ ~req[h].abortEmitted
  /\ Becomes(onAbort([ State EXCEPT !.req[h].abortEmitted = TRUE ], h))
  /\ UNCHANGED << signal, firstEvent, startSignal >>

\* a chunk of the response body arrives, b its first byte
ResData(h, b) ==
  /\ res[h].stream = "flowing"
  /\ res[h].chunks < MaxChunks
  /\ LET s1 == [ State EXCEPT !.res[h].chunks = @ + 1 ]
     IN Becomes(IF s1.body.raw THEN onFirstChunk(s1, h, b) ELSE s1)
  /\ UNCHANGED << signal, firstEvent, startSignal >>

\* the response body ends
ResEnd(h) ==
  /\ res[h].stream = "flowing"
  /\ Becomes(onEnd(State, h))
  /\ UNCHANGED << signal, firstEvent, startSignal >>

\* the caller consumes the body of the response it was given
Consume ==
  /\ promise[1].state \in { "fulfilled", "follows" }
  /\ response.hop # 0
  /\ promise[response.hop].state = "fulfilled"
  /\ consume = "none"
  /\ consume' = IF body.error # Null THEN body.error
                ELSE IF res[response.hop].stream = "ended" THEN "resolved"
                ELSE "pending"
  /\ UNCHANGED << args, pc, request, req, reqTimeout, signal, listeners, promise,
                  res, body, response, firstEvent, startSignal, bodies, source,
                  made, heap, thrown >>

\* the body stalls for the response timeout while it is consumed
BodyTimeout ==
  /\ consume = "pending"
  /\ response.timeout # 0
  /\ res[response.hop].stream = "flowing"
  /\ consume' = "body-timeout"
  /\ UNCHANGED << args, pc, request, req, reqTimeout, signal, listeners, promise,
                  res, body, response, firstEvent, startSignal, bodies, source,
                  made, heap, thrown >>

\* the decompression transform of the body fails on the bytes piped into it
\* (invalid data, or an input that ends too early) and emits 'error'
DecodeError ==
  /\ response.hop # 0
  /\ body.kind \in { "Gunzip", "Inflate", "InflateRaw" }
  /\ body.error = Null
  /\ consume # "resolved"
  /\ res[response.hop].chunks > 0 \/ res[response.hop].stream = "ended"
  /\ Becomes(bodyError([ State EXCEPT !.body.error = "system" ], "system"))
  /\ UNCHANGED << signal, firstEvent, startSignal >>

\* the responses a server gives: a Location header comes with a redirect status
Responses ==
  { r \in [ statusCode : Statuses, location : Locations, encoding : Encodings ] :
      /\ r.location # NoLocation => isRedirect(r.statusCode)
      /\ r.encoding \in { "x-gzip", "x-deflate" } => r.statusCode = 200
      /\ r.statusCode = 304 => r.encoding = "gzip" }

Next ==
  \/ \E h \in Hops : StartHop(h)
  \/ \E h \in Hops : TimeoutFires(h)
  \/ SignalAbort
  \/ \E h \in Hops : \E code \in ErrorCodes \cup { "ECONNRESET" } : TransportError(h, code)
  \/ \E h \in Hops : \E r \in Responses : TransportResponse(h, r)
  \/ \E h \in Hops : TransportLogin(h)
  \/ \E h \in Hops : TransportAbort(h)
  \/ \E h \in Hops : \E b \in FirstBytes : ResData(h, b)
  \/ \E h \in Hops : ResEnd(h)
  \/ Consume
  \/ BodyTimeout
  \/ DecodeError

Spec == Init /\ [][Next]_vars

\* the scheduling of an exchange: a queued executor runs; the transport emits
\* 'error' or 'response' on a request that waits for one, 'abort' on a request
\* that was aborted, and ends every response stream
Fairness ==
  \A h \in Hops :
    /\ WF_vars(StartHop(h))
    /\ WF_vars(\/ \E code \in ErrorCodes \cup { "ECONNRESET" } : TransportError(h, code)
               \/ \E r \in Responses : TransportResponse(h, r))
    /\ WF_vars(TransportAbort(h))
    /\ WF_vars(ResEnd(h))

SpecFair == Spec /\ Fairness

\* --------------------------------------- the consumption of a Response
\* the state after fetch(url, opts) was called
FetchCalled(url, opts) ==
  [ args |-> [ h \in Hops |-> IF h = 1 THEN [ url |-> url, opts |-> opts ] ELSE NoArgs ],
    pc |-> [ h \in Hops |-> IF h = 1 THEN "called" ELSE "none" ],
    request |-> [ h \in Hops |-> NoRequest ],
    req |-> [ h \in Hops |-> NoReq ],
    reqTimeout |-> [ h \in Hops |-> "none" ],
    listeners |-> << >>,
    promise |-> [ h \in Hops |-> IF h = 1 THEN Pending ELSE NoPromise ],
    res |-> [ h \in Hops |-> NoRes ],
    body |-> NoBody,
    response |-> NoResponse,
    consume |-> "none" ]

\* a GET of http://a/p on Node with the size limit
PlainGet(size) ==
  [ url |-> URL("http:", "a", "/p"), method |-> Undefined, body |-> Null,
    contentLength |-> Null, redirect |-> "follow", follow |-> NoNumber, timeout |-> 0,
    signal |-> FALSE, useElectronNet |-> FALSE, agent |-> FALSE, credentials |-> FALSE,
    onLogin |-> FALSE ]
  @@ Extra(NoHeaders, TRUE, size)

\* fetch(url, {size}) has resolved with the Response of a 200 answer
InitBody ==
  \E size \in Sizes : \E chunks \in Sources :
    LET o == PlainGet(size)
        r == [ statusCode |-> 200, location |-> NoLocation, encoding |-> Null ]
        st == onResponse(executor(FetchCalled(o.url, o), 1, "none"), 1, r)
    IN /\ args = st.args
       /\ pc = st.pc
       /\ request = st.request
       /\ req = st.req
       /\ reqTimeout = st.reqTimeout
       /\ listeners = st.listeners
       /\ promise = st.promise
       /\ res = st.res
       /\ body = st.body
       /\ response = st.response
       /\ consume = st.consume
       /\ signal = "none"
       /\ firstEvent = [ h \in Hops |-> IF h = 1 THEN "response" ELSE "none" ]
       /\ startSignal = [ h \in Hops |-> IF h = 1 THEN "none" ELSE "unset" ]
       /\ bodies = [ i \in Instances |-> IF i = 1 THEN Body(st.response.size) ELSE NoInstance ]
       /\ source = [ chunks |-> chunks, ended |-> FALSE, total |-> Sum(chunks) ]
       /\ thrown = NoThrown
       /\ made = NoMade
       /\ heap = NoHeap

\* the caller calls text, json, buffer, arrayBuffer or blob on a body
BodyCall(i, m) ==
  /\ bodies[i].exists
  /\ bodies[i].rejected = 0
  /\ bodies' = [ bodies EXCEPT ![i] = consumeBody(@, m) ]
  /\ UNCHANGED << fetchVars, source, made, heap, thrown >>

\* the caller calls clone() on the Response
BodyClone ==
  /\ bodies[1].exists
  /\ ~bodies[2].exists
  /\ ~bodies[1].cloneThrew
  /\ bodies' = IF bodies[1].used THEN [ bodies EXCEPT ![1].cloneThrew = TRUE ]
               ELSE [ bodies EXCEPT ![2] = clone(bodies[1]) ]
  /\ UNCHANGED << fetchVars, source, made, heap, thrown >>

\* the stream delivers a chunk to every branch that is not torn down
SourceData ==
  /\ source.chunks # << >>
  /\ source' = [ source EXCEPT !.chunks = Tail(@) ]
  /\ bodies' = [ i \in Instances |->
                  IF bodies[i].exists /\ bodies[i].result # "max-size"
                    THEN [ bodies[i] EXCEPT !.queue = Append(@, Head(source.chunks)) ]
                  ELSE bodies[i] ]
  /\ UNCHANGED << fetchVars, made, heap, thrown >>

\* the stream ends
SourceEnd ==
  /\ source.chunks = << >>
  /\ ~source.ended
  /\ source' = [ source EXCEPT !.ended = TRUE ]
  /\ UNCHANGED << fetchVars, bodies, made, heap, thrown >>

\* the consumption of a body reads the next chunk
Drain(i) ==
  /\ bodies[i].result = "pending"
  /\ bodies[i].queue # << >>
  /\ bodies' = [ bodies EXCEPT ![i] = onData(@, Head(@.queue)) ]
  /\ UNCHANGED << fetchVars, source, made, heap, thrown >>

\* the consumption of a body reaches the end of the stream
Finish(i) ==
  /\ bodies[i].result = "pending"
  /\ bodies[i].queue = << >>
  /\ source.ended
  /\ bodies' = [ bodies EXCEPT ![i] = onBodyEnd(@) ]
  /\ UNCHANGED << fetchVars, source, made, heap, thrown >>

NextBody ==
  \/ \E i \in Instances : \E m \in BodyMethods : BodyCall(i, m)
  \/ BodyClone
  \/ SourceData
  \/ SourceEnd
  \/ \E i \in Instances : Drain(i)
  \/ \E i \in Instances : Finish(i)

SpecBody == InitBody /\ [][NextBody]_vars

\* ------------------------------------- the Requests a caller builds itself
\* no exchange is running
Idle ==
  /\ args = [ h \in Hops |-> NoArgs ]
  /\ pc = [ h \in Hops |-> "none" ]
  /\ request = [ h \in Hops |-> NoRequest ]
  /\ req = [ h \in Hops |-> NoReq ]
  /\ reqTimeout = [ h \in Hops |-> "none" ]
  /\ signal = "none"
  /\ listeners = << >>
  /\ promise = [ h \in Hops |-> NoPromise ]
  /\ res = [ h \in Hops |-> NoRes ]
  /\ body = NoBody
  /\ response = NoResponse
  /\ consume = "none"
  /\ firstEvent = [ h \in Hops |-> "none" ]
  /\ startSignal = [ h \in Hops |-> "unset" ]
  /\ bodies = [ i \in Instances |-> NoInstance ]
  /\ source = NoSource

\* the init of new Request(url, init): method, body, headers with their
\* Content-Length, redirect, follow and the transport
RequestInits ==
  [ method : { Undefined, "HEAD", "POST", "put" },
    body : { Null, "stream" } \cup KnownBodies,
    headers : { NoHeaders, Headers("text/html", Null, Null, Null) },
    contentLength : { Null, "5" },
    redirect : { Undefined, "manual" },
    follow : FollowOptions,
    useElectronNet : BOOLEAN ]

\* the init of new Request(r1, init): every property may be missing
Pick(init, names) == [ f \in names \cup { "method" } |-> init[f] ]
WrapInits ==
  { Pick(init, names) :
      init \in [ method : { Undefined, "GET", "post" },
                 headers : { Headers(Null, "agent/1", Null, Null) },
                 contentLength : { Null },
                 redirect : { "error" },
                 follow : 0..MaxFollow,
                 useElectronNet : BOOLEAN ],
      names \in { n \cup (IF "headers" \in n THEN { "contentLength" } ELSE { }) :
                    n \in SUBSET { "headers", "redirect", "follow", "useElectronNet" } } }

\* the URLs a Request is built from: only the first is accepted by
\* getNodeRequestOptions
RequestURLs == { URL("http:", "a", "/p"), URL(Null, Null, "/p"), URL("ftp:", "a", "/p") }

\* a caller is about to build a Request from a URL and one from that Request
InitRequest ==
  /\ Idle
  /\ thrown = NoThrown
  /\ heap = NoHeap
  /\ \E url \in RequestURLs : \E init \in RequestInits : \E over \in WrapInits :
       /\ init.contentLength # Null => init.headers = NoHeaders
       /\ over # NoInit => init.contentLength = Null /\ init.body \in { Null, "string" }
       /\ url # URL("http:", "a", "/p") =>
            /\ over = NoInit
            /\ init.follow = NoNumber /\ init.redirect = Undefined
       /\ made = [ NoMade EXCEPT !.step = "init", !.url = url, !.init = init,
                                 !.over = over ]

\* r1 = new Request(url, init)
NewRequest ==
  /\ made.step = "init"
  /\ made' = [ made EXCEPT !.step = "r1",
                            !.r1 = Request(made.url, made.init) ]
  /\ UNCHANGED << fetchVars, bodies, source, heap, thrown >>

\* r2 = new Request(r1, init)
WrapRequest ==
  /\ made.step = "r1"
  /\ made.r1.error = Null
  /\ made' = [ made EXCEPT !.step = "r2", !.r2 = Request(made.r1, made.over) ]
  /\ UNCHANGED << fetchVars, bodies, source, heap, thrown >>

\* getNodeRequestOptions of the Request that was built last
NodeRequestOptions ==
  /\ made.step \in { "r1", "r2" }
  /\ LET last == IF made.step = "r1" THEN made.r1 ELSE made.r2
     IN /\ last.error = Null
        /\ made' = [ made EXCEPT
                       !.step = IF getNodeRequestOptions(last).error = Null
                                  THEN "options" ELSE "TypeError",
                       !.options = getNodeRequestOptions(last),
                       !.after = afterNodeRequestOptions(last) ]
  /\ UNCHANGED << fetchVars, bodies, source, heap, thrown >>

NextRequest == NewRequest \/ WrapRequest \/ NodeRequestOptions

SpecRequest == InitRequest /\ [][NextRequest]_vars

\* ------------------------------------------------------------ headers.js
\* the names and values a caller uses, the normalized names in sorted order
HeaderNames == { "a", "b", "B" }
HeaderValues == { "1", "2" }
SortedNames == << "a", "b" >>
sanitizeName(name) == IF name = "B" THEN "b" ELSE name

RECURSIVE join(_, _)
join(list, separator) ==
  IF Len(list) = 1 THEN list[1]
  ELSE list[1] \o separator \o join(Tail(list), separator)

\* the map of a Headers object: normalized name -> the values in append order,
\* none for a name the object does not have
EmptyHeaders == [ name \in { "a", "b" } |-> << >> ]
append(map, name, value) == [ map EXCEPT ![sanitizeName(name)] = Append(@, value) ]
set(map, name, value) == [ map EXCEPT ![sanitizeName(name)] = << value >> ]
delete(map, name) == [ map EXCEPT ![sanitizeName(name)] = << >> ]
has(map, name) == map[sanitizeName(name)] # << >>
get(map, name) == IF has(map, name) THEN join(map[sanitizeName(name)], ",") ELSE Null
raw(map) == map

RECURSIVE pairs(_, _, _)
pairs(map, names, kind) ==
  IF names = << >> THEN << >>
  ELSE LET name == Head(names)
           of == IF kind = "key" THEN IF has(map, name) THEN << name >> ELSE << >>
                 ELSE IF kind = "value" THEN map[name]
                 ELSE [ i \in 1..Len(map[name]) |-> << name, map[name][i] >> ]
       IN of \o pairs(map, Tail(names), kind)
entries(map) == pairs(map, SortedNames, "key+value")
keys(map) == pairs(map, SortedNames, "key")
values(map) == pairs(map, SortedNames, "value")

\* the headers of a response as the transport hands them over: per name a
\* string or an array of strings, in the order they were received
RawHeader(name, array, list) == [ name |-> name, array |-> array, list |-> list ]
RawHeaders ==
  { << >>,
    << RawHeader("b", TRUE, << "1", "2" >>) >>,
    << RawHeader("b", TRUE, << "2", "1" >>), RawHeader("a", FALSE, << "1" >>) >>,
    << RawHeader("a", FALSE, << "2" >>), RawHeader("B", TRUE, << "1" >>) >> }

\* the values of an array appended last to first
RECURSIVE appendEach_Reversed(_, _, _)
appendEach_Reversed(map, name, list) ==
  IF list = << >> THEN map
  ELSE append(appendEach_Reversed(map, name, Tail(list)), name, Head(list))

\* for (const val of res.headers[name]) headers.append(name, val)
RECURSIVE appendEach(_, _, _)
appendEach(map, name, list) ==
  IF list = << >> THEN map
  ELSE appendEach(append(map, name, Head(list)), name, Tail(list))

\* the Headers of a Response, built from the headers of the transport
RECURSIVE responseHeaders(_, _)
responseHeaders(map, rawHeaders) ==
  IF rawHeaders = << >> THEN map
  ELSE LET header == Head(rawHeaders)
       IN responseHeaders(IF header.array THEN appendEach(map, header.name, header.list)
                          ELSE append(map, header.name, header.list[1]),
                          Tail(rawHeaders))

\* new Headers(init) with init a list of pairs: every pair is appended
RECURSIVE appendPairs(_, _)
appendPairs(map, init) ==
  IF init = << >> THEN map
  ELSE appendPairs(append(map, Head(init)[1], Head(init)[2]), Tail(init))
HeadersInits == { << >>, << << "b", "2" >>, << "a", "1" >> >> }

\* the objects that hold a Headers: two Headers of the caller, two Requests
\* and a Response
Refs == { "h1", "h2", "r1", "r2", "res" }

\* a new Headers object with the map, held by ref; the object is named after
\* the first holder of it
alloc(h, ref, map) == [ h EXCEPT !.objects[ref] = map, !.refs[ref] = ref ]

\* new Headers(init) with init a Headers object: the map is copied
HeadersFrom(h, ref, from) == alloc(h, ref, h.objects[h.refs[from]])

\* this.headers of a Request set to the Headers object it is given
requestHeaders_Shared(h, ref, from) == [ h EXCEPT !.refs[ref] = h.refs[from] ]

\* this.headers = new Headers(init.headers || input.headers || {})
requestHeaders(h, ref, from) == HeadersFrom(h, ref, from)

\* the Headers object held by ref
HeadersOf(ref) == heap.objects[heap.refs[ref]]
Held(ref) == heap.refs[ref] # "none"

InitHeaders ==
  /\ Idle
  /\ thrown = NoThrown
  /\ made = NoMade
  /\ heap = [ step |-> "run", objects |-> [ ref \in Refs |-> EmptyHeaders ],
              refs |-> [ ref \in Refs |-> "none" ], ops |-> 0 ]

\* h1 = new Headers(init) with init a list of pairs of a name and a value, by
\* a caller that holds no Response
CreateHeaders(init) ==
  /\ heap.step = "run" /\ ~Held("h1") /\ ~Held("res")
  /\ heap' = alloc(heap, "h1", appendPairs(EmptyHeaders, init))
  /\ UNCHANGED << fetchVars, bodies, source, made, thrown >>

\* h2 = new Headers(h1)
CopyHeaders ==
  /\ heap.step = "run" /\ Held("h1") /\ ~Held("h2")
  /\ heap' = HeadersFrom(heap, "h2", "h1")
  /\ UNCHANGED << fetchVars, bodies, source, made, thrown >>

\* r1 = new Request(url, {headers: h1})
RequestWithHeaders ==
  /\ heap.step = "run" /\ Held("h1") /\ ~Held("r1")
  /\ heap' = requestHeaders(heap, "r1", "h1")
  /\ UNCHANGED << fetchVars, bodies, source, made, thrown >>

\* r2 = new Request(r1)
RequestFromRequest ==
  /\ heap.step = "run" /\ Held("r1") /\ ~Held("r2")
  /\ heap' = requestHeaders(heap, "r2", "r1")
  /\ UNCHANGED << fetchVars, bodies, source, made, thrown >>

\* a response arrives with the headers, at a caller that built no Headers:
\* res.headers of the Response
ResponseHeaders(rawHeaders) ==
  /\ heap.step = "run" /\ ~Held("res") /\ ~Held("h1")
  /\ heap' = alloc(heap, "res", responseHeaders(EmptyHeaders, rawHeaders))
  /\ UNCHANGED << fetchVars, bodies, source, made, thrown >>

Mutate(ref, map) ==
  /\ heap.step = "run" /\ Held(ref) /\ heap.ops < MaxOps
  /\ heap' = [ heap EXCEPT !.objects[heap.refs[ref]] = map, !.ops = @ + 1 ]
  /\ UNCHANGED << fetchVars, bodies, source, made, thrown >>

HeadersAppend(ref, name, value) == Mutate(ref, append(HeadersOf(ref), name, value))
HeadersSet(ref, name, value) == Mutate(ref, set(HeadersOf(ref), name, value))
HeadersDelete(ref, name) == Mutate(ref, delete(HeadersOf(ref), name))

NextHeaders ==
  \/ \E init \in HeadersInits : CreateHeaders(init)
  \/ CopyHeaders
  \/ RequestWithHeaders
  \/ RequestFromRequest
  \/ \E rawHeaders \in RawHeaders : ResponseHeaders(rawHeaders)
  \/ \E ref \in Refs, name \in HeaderNames, value \in HeaderValues :
       HeadersAppend(ref, name, value)
  \/ \E ref \in Refs, name \in HeaderNames, value \in HeaderValues :
       HeadersSet(ref, name, value)
  \/ \E ref \in Refs, name \in HeaderNames : HeadersDelete(ref, name)

SpecHeaders == InitHeaders /\ [][NextHeaders]_vars

\* ------------------------------------------------- what the claims speak of
\* the outcome of the promise the caller holds: resolve(fetch(...)) makes the
\* promise of a hop follow the promise of the next hop
RECURSIVE Outcome(_, _)
Outcome(p, h) ==
  IF p[h].state = "follows" /\ h < MaxHops THEN Outcome(p, h + 1) ELSE p[h]

Rejected(p, type) == p.state = "rejected" /\ p.type = type

\* the transport requests issued so far
NumRequests == Cardinality({ h \in Hops : req[h].state # "none" })

\* hop h has a transport request and its promise was pending when it was sent
Raced(h) == req[h].state # "none" /\ promise[h].type # "Error"

\* hop h is the last hop so far
LastHop(h) == pc[h] = "run" /\ (h < MaxHops => pc[h + 1] = "none")

\* no further hop was started from hop h
NoFurtherRequest(h) == NumRequests = h /\ (h < MaxHops => pc[h + 1] = "none")

\* the redirect of hop h was followed and the request of hop h+1 was sent
Followed(h) == h < MaxHops /\ req[h + 1].state # "none"

\* url is the Location loc resolved against base
ResolvedAgainst(url, base, loc) ==
  /\ url.path = loc.path
  /\ url.hostname = IF loc.hostname = Null THEN base.hostname ELSE loc.hostname
  /\ url.protocol = IF loc.hostname = Null THEN base.protocol ELSE loc.protocol

\* C1: in every interleaving of timeout, abort, transport error and response
\* of one hop, the promise of the hop has the outcome of the event that
\* occurred first: request-timeout, abort, system error or the interpretation
\* of the response; a later event never changes it.
C1_FirstEventDecides ==
  \A h \in Hops : Raced(h) =>
    /\ firstEvent[h] = "timeout" => Rejected(promise[h], "request-timeout")
    /\ firstEvent[h] = "abort" => Rejected(promise[h], "abort")
    /\ firstEvent[h] = "error" => Rejected(promise[h], "system")
    /\ firstEvent[h] = "response" =>
         promise[h].type \notin { "request-timeout", "abort", "system" }

\* C2: under policy follow the redirect counter of every request is between 0
\* and follow, starts at 0 and is the number of redirects followed so far.
C2_CounterWithinFollow ==
  \A h \in Hops : (request[h].error = Null /\ request[h].redirect = "follow") =>
    /\ 0 <= request[h].counter
    /\ request[h].counter <= request[h].follow
    /\ request[h].counter = (h - 1) + (IF h < MaxHops /\ pc[h + 1] # "none" THEN 1 ELSE 0)

C2_Witness ==
  \E h \in Hops :
    /\ request[h].error = Null
    /\ request[h].redirect = "follow"
    /\ request[h].counter = request[h].follow
    /\ request[h].counter > 0
    /\ req[h].state # "none"

\* C3: under policy follow on Node, when every hop is answered and the last
\* answer is not a redirect, N <= follow redirects were followed, N+1 requests
\* were issued and the fetch resolves (at once, or at the first chunk of a
\* deflate body) with a response whose url is the last Location resolved
\* against the URL of the hop that received it; when the last answer is a
\* redirect with a Location that is not followed, it is redirect follow+1,
\* follow+1 requests were issued and the fetch rejects with max-redirect.
C3_RedirectChain ==
  \A k \in Hops :
    ( /\ LastHop(k)
      /\ request[1].error = Null
      /\ request[1].redirect = "follow"
      /\ ~request[1].useElectronNet
      /\ \A h \in 1..k : firstEvent[h] = "response"
      /\ signal # "aborted"
      /\ \A h \in Hops : ~req[h].errored ) =>
    /\ ~isRedirect(res[k].statusCode) =>
         /\ k - 1 <= request[k].follow
         /\ NumRequests = k
         /\ \A h \in 1..(k - 1) : promise[h].state = "follows"
         /\ promise[k].state = "fulfilled" \/ (promise[k].state = "pending" /\ body.raw)
         /\ response.hop = k
         /\ response.status = res[k].statusCode
         /\ k = 1 => response.url = args[1].url
         /\ k > 1 => ResolvedAgainst(response.url, req[k - 1].options.url, res[k - 1].location)
    /\ (isRedirect(res[k].statusCode) /\ res[k].location # NoLocation) =>
         /\ k = request[k].follow + 1
         /\ NumRequests = k
         /\ Rejected(Outcome(promise, 1), "max-redirect")

C3_Witness ==
  /\ request[1].error = Null
  /\ request[1].redirect = "follow"
  /\ ~request[1].useElectronNet
  /\ response.hop = 2
  /\ res[1].location = URL(Null, Null, "/r")
  /\ response.url = URL("http:", "a", "/r")
  /\ Outcome(promise, 1).state = "fulfilled"
  /\ NumRequests = 2

\* C4: when a redirect is followed with status 303, or with status 301 or 302
\* and method POST, the next hop is sent with method GET, no body and no
\* Content-Length header.
C4_RewriteToGet ==
  \A h \in Hops :
    ( /\ Followed(h)
      /\ \/ res[h].statusCode = 303
         \/ res[h].statusCode \in { 301, 302 } /\ req[h].options.method = "POST" ) =>
    /\ req[h + 1].options.method = "GET"
    /\ req[h + 1].options.body = Null
    /\ req[h + 1].options.contentLength = Null

C4_Witness ==
  \E h \in Hops :
    /\ Followed(h)
    /\ res[h].statusCode = 303
    /\ req[h].options.method = "PUT"
    /\ req[h].options.body # Null
    /\ req[h].options.contentLength # Null
    /\ req[h + 1].options.method = "GET"

\* C5: under policy manual a response with a redirect status resolves the
\* fetch (at once, or at the first chunk of a deflate body) with that status
\* and the request URL; one transport request is issued, the counter stays 0,
\* and a Location header is replaced by its resolution against the request
\* URL, an absent one stays absent.
C5_ManualRedirect ==
  \A h \in Hops :
    ( /\ Raced(h)
      /\ request[h].redirect = "manual"
      /\ firstEvent[h] = "response"
      /\ isRedirect(res[h].statusCode)
      /\ ~req[h].errored ) =>
    /\ h = 1
    /\ NoFurtherRequest(h)
    /\ request[h].counter = 0
    /\ promise[h].state = "fulfilled" \/ (promise[h].state = "pending" /\ body.raw)
    /\ response.hop = h
    /\ response.status = res[h].statusCode
    /\ response.url = args[h].url
    /\ IF res[h].location = NoLocation THEN response.location = NoLocation
       ELSE ResolvedAgainst(response.location, args[h].url, res[h].location)

C5_Witness ==
  /\ Raced(1)
  /\ request[1].redirect = "manual"
  /\ res[1].stream # "none"
  /\ res[1].statusCode = 301
  /\ res[1].location = URL(Null, Null, "/r")
  /\ response.location = URL("http:", "a", "/r")
  /\ promise[1].state = "fulfilled"

\* C6 as stated: a redirect response rejects with no-redirect under policy
\* error and, when it has no Location, with invalid-redirect under policy
\* follow; no further transport request is issued.
C6_AsStated ==
  \A h \in Hops :
    (Raced(h) /\ firstEvent[h] = "response" /\ isRedirect(res[h].statusCode)) =>
    /\ request[h].redirect = "error" =>
         Rejected(promise[h], "no-redirect") /\ NoFurtherRequest(h)
    /\ (request[h].redirect = "follow" /\ res[h].location = NoLocation) =>
         Rejected(promise[h], "invalid-redirect") /\ NoFurtherRequest(h)

\* C6: a redirect response rejects with no-redirect under policy error; under
\* policy follow it rejects with max-redirect when follow redirects were
\* already followed, and otherwise with invalid-redirect when it has no
\* Location; in each case no further transport request is issued.
C6_RedirectViolations ==
  \A h \in Hops :
    (Raced(h) /\ firstEvent[h] = "response" /\ isRedirect(res[h].statusCode)) =>
    /\ request[h].redirect = "error" =>
         Rejected(promise[h], "no-redirect") /\ NoFurtherRequest(h)
    /\ (request[h].redirect = "follow" /\ h - 1 >= request[h].follow) =>
         Rejected(promise[h], "max-redirect") /\ NoFurtherRequest(h)
    /\ (request[h].redirect = "follow" /\ h - 1 < request[h].follow
          /\ res[h].location = NoLocation) =>
         Rejected(promise[h], "invalid-redirect") /\ NoFurtherRequest(h)

C6_Witness ==
  \E h \in Hops :
    /\ Raced(h)
    /\ request[h].redirect = "follow"
    /\ h - 1 < request[h].follow
    /\ firstEvent[h] = "response"
    /\ isRedirect(res[h].statusCode)
    /\ res[h].location = NoLocation
    /\ Rejected(promise[h], "invalid-redirect")

\* C7: with timeout = 0 no timer is armed; with timeout > 0 the timer is armed
\* when the request of the hop is created and, when it fires, the transport
\* request is cancelled (destroyed on Node, aborted on Electron) and a fetch
\* that is still pending rejects with request-timeout.
C7_RequestTimeout ==
  \A h \in Hops :
    /\ (request[h].error = Null /\ request[h].timeout = 0) => reqTimeout[h] = "none"
    /\ (req[h].state # "none" /\ request[h].timeout > 0) => reqTimeout[h] # "none"
    /\ reqTimeout[h] = "fired" =>
         /\ req[h].state = IF request[h].useElectronNet THEN "aborted" ELSE "destroyed"
         /\ promise[h].type \notin { "Error", "proxy" } =>
              Rejected(promise[h], "request-timeout")

C7_Witness ==
  \E h \in Hops :
    /\ reqTimeout[h] = "fired"
    /\ req[h].state = "destroyed"
    /\ Rejected(Outcome(promise, 1), "request-timeout")

\* C8: the timer of a hop is disarmed once the hop has received a response or
\* a transport error; once the fetch has settled (by one of the events of the
\* race) no timer is armed; once the headers of the final response have
\* arrived the fetch is resolved, whatever the body does afterwards, and a
\* consumption never fails with request-timeout.
C8_TimerDisarmed ==
  /\ \A h \in Hops : firstEvent[h] \in { "response", "error" } => reqTimeout[h] # "armed"
  /\ ( /\ Outcome(promise, 1).state \in { "fulfilled", "rejected" }
       /\ Outcome(promise, 1).type \notin { "Error", "proxy" } ) =>
       \A h \in Hops : reqTimeout[h] # "armed"
  /\ (response.hop # 0 /\ Raced(response.hop) /\ ~req[response.hop].errored) =>
       promise[response.hop].state = "fulfilled"
  /\ consume # "request-timeout"

\* C9: when the signal is already aborted as the executor of a hop runs on a
\* valid request, the fetch rejects with abort, and the hop creates no
\* transport request, arms no timer and registers no listener.
C9_AbortedBeforeSend ==
  \A h \in Hops :
    ( /\ startSignal[h] = "aborted"
      /\ request[h].error = Null
      /\ getNodeRequestOptions(request[h]).error = Null ) =>
    /\ Rejected(promise[h], "abort")
    /\ Rejected(Outcome(promise, 1), "abort")
    /\ req[h].state = "none"
    /\ reqTimeout[h] = "none"
    /\ \A i \in 1..Len(listeners) : listeners[i].hop # h

C9_Witness ==
  /\ MaxHops >= 2
  /\ startSignal[1] = "idle"
  /\ startSignal[2] = "aborted"
  /\ request[2].error = Null
  /\ request[2].timeout > 0
  /\ Rejected(Outcome(promise, 1), "abort")

\* C10: when the signal fires after the transport request of the current hop
\* was created and before the response body has ended, the operation the
\* caller awaits (the fetch promise while it is pending, else a consumption
\* under way) fails with abort, and the request or the response stream is
\* torn down.
C10_AbortFailsAwaited ==
  [][ (signal = "idle" /\ signal' = "aborted") =>
        \A h \in Hops :
          ( /\ LastHop(h)
            /\ req[h].state # "none"
            /\ res[h].stream \in { "none", "flowing" } ) =>
          /\ Outcome(promise, 1).state = "pending" =>
               /\ Rejected(Outcome(promise', 1), "abort")
               /\ req'[h].state \in { "destroyed", "aborted" } \/ res'[h].stream = "destroyed"
          /\ (Outcome(promise, 1).state = "fulfilled" /\ consume = "pending") =>
               /\ consume' = "abort"
               /\ req'[h].state \in { "destroyed", "aborted" } \/ res'[h].stream = "destroyed" ]_vars

\* the exchange is over: the fetch promise is rejected (by an event of the
\* exchange, no response being handed out) and the transport has delivered
\* the event of a request that was cancelled, or the body of the response has
\* ended or errored
ExchangeOver ==
  \/ /\ Outcome(promise, 1).state = "rejected"
     /\ Outcome(promise, 1).type # "Error"
     /\ response.hop = 0
     /\ \A h \in Hops : req[h].state = "destroyed" => req[h].errored \/ req[h].responded
     /\ \A h \in Hops : req[h].state = "aborted" => req[h].abortEmitted
  \/ response.hop # 0 /\ (res[response.hop].stream = "ended" \/ body.error # Null)

\* C11: when the signal fires after the exchange is over no listener of the
\* exchange is left on the signal, so that no promise changes, nothing is
\* destroyed again and no error is emitted; once the signal has fired no
\* listener is left for a second trigger.
C11_AbortAfterOverIsNoop ==
  /\ [][ (signal = "idle" /\ signal' = "aborted" /\ ExchangeOver) =>
           /\ listeners = << >>
           /\ UNCHANGED << promise, req, reqTimeout, res, body, consume >> ]_vars
  /\ [](signal = "aborted" => listeners = << >>)

\* C12: a transport error that is emitted before the response headers while
\* the fetch is pending rejects it with a FetchError of type system whose code
\* and errno are the code of the failure, and issues no further request for
\* the hop; a hop rejected with system never starts another hop.
C12_TransportErrorRejects ==
  /\ [][ \A h \in Hops : \A code \in ErrorCodes \cup { "ECONNRESET" } :
           ( /\ TransportError(h, code)
             /\ ~req[h].responded
             /\ promise[h].state = "pending" ) =>
           LET e == FetchError(requestFailed(formatURL(request[h].url),
                                             transportError(request[h].useElectronNet, code)),
                               "system",
                               transportError(request[h].useElectronNet, code))
           IN /\ e.code = code
              /\ e.errno = code
              /\ promise'[h] = Promise("rejected", "system", code, Null)
              /\ NumRequests' = NumRequests
              /\ pc' = pc ]_vars
  /\ [](\A h \in Hops : Rejected(promise[h], "system") =>
          req[h].state # "none" /\ (h < MaxHops => pc[h + 1] = "none"))

C12_Witness ==
  \E h \in Hops :
    /\ request[h].error = Null
    /\ request[h].useElectronNet
    /\ firstEvent[h] = "error"
    /\ ~req[h].responded
    /\ Rejected(Outcome(promise, 1), "system")
    /\ Outcome(promise, 1).code = "ECONNREFUSED"

\* C15: a body is unused until the first call of text, json, buffer,
\* arrayBuffer or blob and used from then on; at most one call is accepted;
\* a call on a used body fails with 'body used already' and reads nothing.
C15_BodyUsedOnce ==
  /\ [](\A i \in Instances : bodies[i].exists =>
          /\ bodies[i].accepted <= 1
          /\ bodies[i].used <=> bodies[i].accepted + bodies[i].rejected > 0
          /\ ~bodies[i].used => bodies[i].result = "none")
  /\ [][ \A i \in Instances :
           /\ bodies[i].used => bodies'[i].used
           /\ \A m \in BodyMethods :
                (BodyCall(i, m) /\ bodies[i].used) =>
                  /\ bodies'[i] = [ bodies[i] EXCEPT !.rejected = @ + 1 ]
                  /\ source' = source ]_vars

C15_Witness ==
  \E i \in Instances :
    /\ bodies[i].rejected = 1
    /\ bodies[i].result = "resolved"
    /\ bodies[i].delivered = 2

C17_MaxSize ==
  LET S == args[1].opts.size
  IN /\ promise[1].state = "fulfilled"
     /\ \A i \in Instances : bodies[i].exists =>
          /\ S > 0 => bodies[i].accum <= S /\ bodies[i].delivered <= S
          /\ bodies[i].result = "max-size" => S > 0 /\ source.total > S
          /\ bodies[i].result = "resolved" => S = 0 \/ source.total <= S

C17_Witness ==
  \E i \in Instances :
    /\ args[1].opts.size = 3
    /\ bodies[i].result = "max-size"
    /\ bodies[i].accum = 2
    /\ source.total = 4

\* hop h has touched neither the transport, nor a timer, nor the signal, and
\* nothing was started after it
Untouched(h) ==
  /\ req[h].state = "none"
  /\ reqTimeout[h] = "none"
  /\ \A i \in 1..Len(listeners) : listeners[i].hop # h
  /\ NumRequests = h - 1
  /\ h < MaxHops => pc[h + 1] = "none"

\* C13: a fetch whose Request was constructed rejects with TypeError 'Only
\* absolute URLs are supported' when the URL has no scheme or no host, and
\* otherwise with TypeError 'Only HTTP(S) protocols are supported' when the
\* scheme is not http or https; no transport request is created, no timer is
\* armed and no further attempt is made.
C13_UrlValidation ==
  \A h \in Hops :
    (pc[h] = "run" /\ Request(args[h].url, args[h].opts).error = Null) =>
      LET u == args[h].url
      IN IF u.protocol = Null \/ u.hostname = Null
           THEN /\ promise[h] = Promise("rejected", "TypeError", Null,
                                        "TypeError: Only absolute URLs are supported")
                /\ Untouched(h)
         ELSE u.protocol \notin { "http:", "https:" } =>
                /\ promise[h] = Promise("rejected", "TypeError", Null,
                                        "TypeError: Only HTTP(S) protocols are supported")
                /\ Untouched(h)

C13_Witness ==
  /\ pc[1] = "run"
  /\ args[1].url = URL("file:", Null, "/p")
  /\ args[1].opts.timeout > 0
  /\ args[1].opts.signal
  /\ promise[1].message = "TypeError: Only absolute URLs are supported"

\* C14: no Request has method GET or HEAD and a body: a construction with a
\* body and the method GET or HEAD, in any letter case, fails with a TypeError,
\* and the request of a hop never has method GET or HEAD together with a body,
\* after a redirect rewrite either.
C14_NoBodyWithGetOrHead ==
  \A h \in Hops :
    /\ request[h].error = Null =>
         ~(request[h].method \in { "GET", "HEAD" } /\ request[h].body # Null)
    /\ ( /\ pc[h] = "run"
         /\ args[h].opts.body # Null
         /\ toUpperCase(IF args[h].opts.method = Undefined THEN "GET" ELSE args[h].opts.method)
              \in { "GET", "HEAD" } ) =>
         Rejected(promise[h], "TypeError")

\* C19: with the option compress set to false the body of the response is not
\* wrapped in a decompression transform.
C19_CompressFalse ==
  args[1].opts.compress = FALSE =>
    /\ body.kind \in { Null, "PassThrough" }
    /\ ~body.raw

\* C20: the headers handed to the transport hold Accept, User-Agent,
\* Accept-Encoding and Connection; each is the value the caller set, or the
\* default when the caller has not set it.
C20_DefaultHeaders ==
  \A h \in Hops : req[h].state # "none" =>
    LET sent == req[h].options.headers
        given == request[h].headers
    IN /\ sent.accept = IF given.accept = Null THEN "*/*" ELSE given.accept
       /\ sent.userAgent =
            IF given.userAgent # Null THEN given.userAgent
            ELSE IF request[h].useElectronNet
              THEN "electron-fetch/1.0 electron (+https://github.com/arantes555/electron-fetch)"
            ELSE "electron-fetch/1.0 node (+https://github.com/arantes555/electron-fetch)"
       /\ sent.acceptEncoding =
            IF given.acceptEncoding = Null THEN "gzip,deflate" ELSE given.acceptEncoding
       /\ sent.connection = IF given.connection = Null THEN "close" ELSE given.connection

\* the body is wrapped in a decompression transform, or will be at the first
\* chunk of a deflate body
Wrapped == body.kind \in { "Gunzip", "Inflate", "InflateRaw" } \/ body.raw

\* C18: the body of a final response is wrapped in a decompression transform
\* exactly when the transport is Node, the method is not HEAD, the status is
\* neither 204 nor 304 and Content-Encoding is gzip, x-gzip, deflate or
\* x-deflate; otherwise the fetch resolves with the body passed through; a
\* transform that fails leaves the fetch promise as it is and fails the
\* consumption of the body.
C18_Decompression ==
  /\ [](response.hop # 0 =>
          LET h == response.hop
              must == /\ ~request[h].useElectronNet
                      /\ request[h].method # "HEAD"
                      /\ response.status \notin { 204, 304 }
                      /\ response.encoding \in { "gzip", "x-gzip", "deflate", "x-deflate" }
          IN /\ Wrapped <=> must
             /\ (must /\ response.encoding \in { "gzip", "x-gzip" }) => body.kind = "Gunzip"
             /\ (~must /\ Raced(h)) =>
                  promise[h].state = "fulfilled" /\ body.kind = "PassThrough"
             /\ body.error = "system" => consume \notin { "pending", "resolved" })
  /\ [][ (body.error = Null /\ body'.error = "system") =>
           /\ promise' = promise
           /\ consume = "pending" => consume' = "system" ]_vars

C18_Witness ==
  /\ response.hop = 1
  /\ response.encoding = "x-deflate"
  /\ body.kind = "InflateRaw"
  /\ body.error = "system"
  /\ consume = "system"
  /\ promise[1].state = "fulfilled"

\* the Request the options were computed from
Sent == IF made.r2 # NoRequest THEN made.r2 ELSE made.r1

\* C21: a body whose length is known before it is sent (a string, a buffer, a
\* blob, a multipart form, the empty string included) is sent with a
\* Content-Length that is its exact byte length, in the place of the one the
\* caller supplied, and is not marked chunked; a POST or PUT without a body is
\* sent with Content-Length 0.
C21_KnownLength ==
  made.step = "options" =>
    /\ Sent.body \in KnownBodies =>
         /\ made.options.contentLength = ToString(ByteLength[Sent.body])
         /\ ~made.options.chunkedEncoding
    /\ Sent.body = Null /\ Sent.method \in { "POST", "PUT" } =>
         /\ made.options.contentLength = "0"
         /\ ~made.options.chunkedEncoding

C21_Witness ==
  /\ made.step = "options"
  /\ Sent.body = "empty"
  /\ made.init.contentLength = "5"
  /\ made.options.contentLength = "0"

\* C22 as stated: a body of unknown length (a stream) and no body with a method
\* other than POST and PUT are marked chunked and sent without a
\* Content-Length, whatever headers the caller supplied.
C22_AsStated ==
  /\ made.step = "options"
  /\ \/ Sent.body = "stream"
     \/ Sent.body = Null /\ Sent.method \notin { "POST", "PUT" }
  =>
      /\ made.options.chunkedEncoding
      /\ made.options.contentLength = Null

\* C22: a body of unknown length (a stream) and no body with a method other
\* than POST and PUT are marked chunked and sent without a Content-Length
\* unless the caller supplied one, which is then sent as the caller gave it.
C22_UnknownLength ==
  /\ made.step = "options"
  /\ \/ Sent.body = "stream"
     \/ Sent.body = Null /\ Sent.method \notin { "POST", "PUT" }
  =>
      /\ made.options.chunkedEncoding
      /\ made.options.contentLength = Sent.contentLength
      /\ made.r2 = NoRequest => made.options.contentLength = made.init.contentLength

C22_Witness ==
  /\ made.step = "options"
  /\ Sent.body = "stream"
  /\ made.init.contentLength = "5"
  /\ made.options.chunkedEncoding
  /\ made.options.contentLength = "5"

HeadersAfter(ref) == heap'.objects[heap'.refs[ref]]

\* the position of a normalized name in the lexicographic order
Rank(name) == CHOOSE i \in 1..Len(SortedNames) : SortedNames[i] = name

\* the values the transport handed over under a name, in the order received
RECURSIVE Received(_, _)
Received(rawHeaders, name) ==
  IF rawHeaders = << >> THEN << >>
  ELSE (IF sanitizeName(Head(rawHeaders).name) = name THEN Head(rawHeaders).list ELSE << >>)
       \o Received(Tail(rawHeaders), name)

Joined(list) == IF list = << >> THEN Null ELSE join(list, ",")

\* C23: after any sequence of append, set and delete, get returns the values
\* of the case-folded name joined by "," in append order, or null; set leaves
\* one value, delete none; entries and values run in the lexicographic order of
\* the normalized names with every value of a repeated name as an entry of its
\* own, in append order; keys yields every name once; and the headers of a
\* response that the transport repeats are appended in the order received.
C23_Headers ==
  /\ [] \A ref \in Refs : Held(ref) =>
          LET map == HeadersOf(ref)
              all == entries(map)
          IN /\ \A name \in HeaderNames : get(map, name) = get(map, sanitizeName(name))
             /\ \A i, j \in 1..Len(all) : i < j => Rank(all[i][1]) <= Rank(all[j][1])
             /\ \A name \in { sanitizeName(n) : n \in HeaderNames } :
                  LET Named(entry) == entry[1] = name
                      named == SelectSeq(all, Named)
                  IN get(map, name) = Joined([ i \in 1..Len(named) |-> named[i][2] ])
             /\ values(map) = [ i \in 1..Len(all) |-> all[i][2] ]
             /\ \A i, j \in 1..Len(keys(map)) :
                  i < j => Rank(keys(map)[i]) < Rank(keys(map)[j])
             /\ { keys(map)[i] : i \in 1..Len(keys(map)) } = { all[i][1] : i \in 1..Len(all) }
  /\ [][ \A ref \in Refs, name \in HeaderNames :
           LET before == get(HeadersOf(ref), name)
               Others == \A n \in HeaderNames :
                           sanitizeName(n) # sanitizeName(name) =>
                             get(HeadersAfter(ref), n) = get(HeadersOf(ref), n)
           IN /\ \A value \in HeaderValues :
                   /\ HeadersAppend(ref, name, value) =>
                        /\ get(HeadersAfter(ref), name) =
                             IF before = Null THEN value ELSE before \o "," \o value
                        /\ Others
                   /\ HeadersSet(ref, name, value) =>
                        get(HeadersAfter(ref), name) = value /\ Others
              /\ HeadersDelete(ref, name) =>
                   /\ get(HeadersAfter(ref), name) = Null
                   /\ ~has(HeadersAfter(ref), name)
                   /\ Others ]_vars
  /\ [][ \A rawHeaders \in RawHeaders :
           ResponseHeaders(rawHeaders) =>
             \A name \in { "a", "b" } :
               get(HeadersAfter("res"), name) = Joined(Received(rawHeaders, name)) ]_vars

C23_Witness ==
  /\ Held("res")
  /\ heap.ops = 2
  /\ entries(HeadersOf("res")) = << << "b", "2" >>, << "b", "1" >>, << "b", "2" >> >>
  /\ get(HeadersOf("res"), "B") = "2,1,2"
  /\ get(HeadersOf("res"), "a") = Null
  /\ keys(HeadersOf("res")) = << "b" >>

\* what get, has and raw return on the Headers object held by ref
View(h, ref) ==
  LET map == h.objects[h.refs[ref]]
  IN [ get |-> [ name \in HeaderNames |-> get(map, name) ],
       has |-> [ name \in HeaderNames |-> has(map, name) ],
       raw |-> raw(map) ]

\* C24: a Headers object built from a Headers object is a copy by value: an
\* append, set or delete on one of the two leaves what get, has and raw return
\* on the other as it was; so it is between a Request built from a Request and
\* that Request, and between a Request and the Headers it was given.
C24_CopyByValue ==
  [][ \A ref \in Refs :
        ( \E name \in HeaderNames :
            \/ \E value \in HeaderValues :
                 HeadersAppend(ref, name, value) \/ HeadersSet(ref, name, value)
            \/ HeadersDelete(ref, name) )
        => \A other \in Refs \ { ref } :
             Held(other) => View(heap', other) = View(heap, other) ]_vars

C24_Witness ==
  /\ Held("h2") /\ Held("r2")
  /\ HeadersOf("h1") # HeadersOf("h2")
  /\ HeadersOf("r1") # HeadersOf("r2")
  /\ HeadersOf("r1") = HeadersOf("h1")

\* C26: on a login event of the transport, a caller that gave user and
\* password has the callback invoked and the request goes on; else a caller
\* whose onLogin handler prevents the default keeps the request open and the
\* promise unsettled; else the request is aborted and the promise rejects with
\* type proxy and code PROXY_AUTH_FAILED.
C26_Login ==
  [][ \A h \in Hops :
        TransportLogin(h) /\ promise[h].state = "pending" =>
          IF Field(args[h].opts, "credentials", FALSE)
            THEN req'[h].state = "open" /\ promise'[h].state = "pending"
          ELSE IF Field(args[h].opts, "onLogin", FALSE)
            THEN req'[h].state = "open" /\ promise'[h].state = "pending"
          ELSE /\ req'[h].state = "aborted"
               /\ promise'[h] = Promise("rejected", "proxy", "PROXY_AUTH_FAILED",
                                        promise'[h].message) ]_vars

\* the promise the caller holds is fulfilled or rejected
Settled == Outcome(promise, 1).state \in { "fulfilled", "rejected" }

\* C27: when the transport emits 'error' or 'response' on every request and
\* ends every response stream, every fetch is settled in the end, whatever the
\* status, the policy, the encoding and the length of the body, zero included.
C27_Settles == <>Settled

\* the requests that wait for the headers of their response
AwaitingHeaders == { h \in Hops : req[h].state = "open" /\ ~req[h].responded }

\* C28: at most one transport request of an exchange waits for headers at any
\* time: the request of hop k+1 is created only after the response of hop k
\* was received, its timer cleared and its status taken for a redirect to
\* follow, and never after the exchange was rejected.
C28_OneRequestAtATime ==
  /\ [] ( /\ Cardinality(AwaitingHeaders) <= 1
          /\ \A h \in Hops : Followed(h) =>
               /\ req[h].responded
               /\ reqTimeout[h] \in { "none", "cleared" }
               /\ isRedirect(res[h].statusCode)
               /\ res[h].location # NoLocation
               /\ request[h].redirect = "follow"
               /\ request[h].counter <= request[h].follow
               /\ promise[h].state = "follows" )
  /\ [][ \A h \in Hops :
           h > 1 /\ req[h].state = "none" /\ req'[h].state # "none" =>
             /\ Outcome(promise, 1).state = "pending"
             /\ Outcome(promise', 1).state = "pending" ]_vars

C28_Witness ==
  /\ Followed(1)
  /\ request[1].timeout # 0
  /\ reqTimeout[1] = "cleared"
  /\ reqTimeout[2] = "armed"
  /\ AwaitingHeaders = { 2 }
  /\ signal = "idle"

\* C29: at every moment at most one abort listener of an exchange is on the
\* signal, and none is left once the exchange is over: after the fetch was
\* rejected for any reason and after the body of the response has ended or
\* errored.
C29_AbortListeners ==
  /\ Len(listeners) <= 1
  /\ ExchangeOver => listeners = << >>

\* the transport request of hop h is torn down: it was cancelled or had failed
\* before, or on Node the response stream, and with it the socket of the
\* request, was destroyed
TornDown(rq, rs, h) ==
  \/ rq[h].state \in { "destroyed", "aborted", "closed" }
  \/ ~request[h].useElectronNet /\ rs[h].stream = "destroyed"

C31_RejectionOrder ==
  [][ \A h \in Hops :
        ( /\ ~req[h].responded /\ req'[h].responded
          /\ promise[h].state = "pending"
          /\ isRedirect(res'[h].statusCode)
          /\ request[h].redirect # "manual" ) =>
        /\ request[h].redirect = "error" => Rejected(promise'[h], "no-redirect")
        /\ (request[h].redirect = "follow" /\ request[h].counter >= request[h].follow) =>
             Rejected(promise'[h], "max-redirect")
        /\ ( /\ request[h].redirect = "follow"
             /\ request[h].counter < request[h].follow
             /\ res'[h].location = NoLocation ) =>
             Rejected(promise'[h], "invalid-redirect")
        /\ promise'[h].state = "rejected" => request'[h] = request[h] ]_vars

C31_Witness ==
  \E h \in Hops :
    /\ firstEvent[h] = "response"
    /\ isRedirect(res[h].statusCode)
    /\ res[h].location = NoLocation
    /\ request[h].redirect = "follow"
    /\ request[h].counter = request[h].follow
    /\ request[h].method = "POST"
    /\ request[h].body # Null
    /\ Rejected(promise[h], "max-redirect")

\* C32: a redirect followed with status 307 or 308, or with 301 or 302 and a
\* method other than POST, sends the next hop with the same method and the
\* same body; on every followed redirect the policy, the follow limit, the
\* timeout, the size limit, the transport and the headers of the caller other
\* than Content-Length are the same on the next hop.
C32_RedirectKeeps ==
  \A h \in Hops : Followed(h) =>
    /\ ( \/ res[h].statusCode \in { 307, 308 }
         \/ res[h].statusCode \in { 301, 302 } /\ req[h].options.method # "POST" ) =>
         /\ req[h + 1].options.method = req[h].options.method
         /\ req[h + 1].options.body = req[h].options.body
    /\ request[h + 1].redirect = request[h].redirect
    /\ request[h + 1].follow = request[h].follow
    /\ request[h + 1].timeout = request[h].timeout
    /\ request[h + 1].size = request[h].size
    /\ request[h + 1].useElectronNet = request[h].useElectronNet
    /\ request[h + 1].headers = request[h].headers
    /\ req[h + 1].options.headers = req[h].options.headers

C32_Witness ==
  /\ Followed(1)
  /\ res[1].statusCode = 301
  /\ req[1].options.method = "PUT"
  /\ req[1].options.body = "string"
  /\ req[2].options.method = "PUT"
  /\ req[2].options.body = "string"

\* C33: under policy follow or error on Node a fetch never resolves with a
\* response of status 301, 302, 303, 307 or 308, and the url of the response
\* is the URL of the hop that produced it.
C33_NoRedirectStatus ==
  ( /\ Outcome(promise, 1).state = "fulfilled"
    /\ request[1].redirect \in { "follow", "error" }
    /\ ~request[1].useElectronNet ) =>
  /\ response.hop # 0
  /\ response.status \notin { 301, 302, 303, 307, 308 }
  /\ response.status = res[response.hop].statusCode
  /\ response.url = req[response.hop].options.url
  /\ response.url = args[response.hop].url

C33_Witness ==
  /\ Outcome(promise, 1).state = "fulfilled"
  /\ request[1].redirect = "follow"
  /\ ~request[1].useElectronNet
  /\ res[1].statusCode = 308
  /\ response.hop = 2
  /\ response.status = 204
  /\ response.url = URL("http:", "b", "/q")

\* C34: a fetch that rejects while sending, before the transport is invoked
\* (signal already aborted, or `agent` given with the Electron transport),
\* has created no transport request, armed no timer and registered no
\* listener for that call.
C34_RejectedBeforeSend ==
  \A h \in Hops :
    ( \/ startSignal[h] = "aborted" /\ Rejected(promise[h], "abort")
      \/ Rejected(promise[h], "Error") ) =>
    /\ req[h].state = "none"
    /\ reqTimeout[h] = "none"
    /\ \A i \in 1..Len(listeners) : listeners[i].hop # h

\* the hops whose request timer is armed
ArmedTimers == { h \in Hops : reqTimeout[h] = "armed" }

\* C35: at most one request timer of an exchange is armed at any time: the
\* timer of hop k is cleared before hop k+1 arms its own, every hop arms its
\* timer with the whole timeout of the call, and the timer is armed in the
\* step that creates the transport request of the hop, before any response,
\* error or abort of that hop is handled.
C35_OneTimer ==
  /\ [] ( /\ Cardinality(ArmedTimers) <= 1
          /\ \A h \in Hops :
               /\ Followed(h) => reqTimeout[h] # "armed"
               /\ req[h].state # "none" =>
                    /\ request[h].timeout = request[1].timeout
                    /\ request[h].timeout # 0 => reqTimeout[h] # "none"
               /\ req[h].state = "none" => reqTimeout[h] = "none" )
  /\ [][ \A h \in Hops :
           req[h].state = "none" /\ req'[h].state # "none" =>
             /\ reqTimeout'[h] = IF request'[h].timeout # 0 THEN "armed" ELSE "none"
             /\ ~req'[h].responded /\ ~req'[h].errored /\ ~req'[h].abortEmitted
             /\ firstEvent'[h] = "none"
             /\ \A k \in Hops : k # h => reqTimeout'[k] # "armed" ]_vars

C35_Witness ==
  /\ Followed(1)
  /\ firstEvent[1] = "response"
  /\ firstEvent[2] = "none"
  /\ request[2].timeout = 100
  /\ ArmedTimers = { 2 }
  /\ promise[2].state = "pending"

\* the values of a byte
Bytes == 0 .. 255

\* the response of hop h is deflate-encoded and its decompression is not skipped
Deflated(h) ==
  /\ response.hop = h
  /\ response.encoding \in { "deflate", "x-deflate" }
  /\ ~request[h].useElectronNet
  /\ request[h].method # "HEAD"
  /\ response.status \notin { 204, 304 }

\* C36: for Content-Encoding deflate or x-deflate, when decompression is not
\* skipped, the transform is chosen from the first byte b of the first body
\* chunk, zlib-wrapped inflate if and only if b mod 16 = 8 and raw inflate
\* otherwise, for every b in 0..255; the fetch is resolved only when that
\* first chunk has arrived, and a resolved fetch is never settled again.
C36_DeflateFirstByte ==
  /\ [] ( \A h \in Hops : Deflated(h) =>
            /\ res[h].chunks = 0 <=> body.raw
            /\ body.raw =>
                 /\ promise[h].state # "fulfilled"
                 /\ \A b \in Bytes :
                      LET s == onFirstChunk(State, h, b)
                      IN /\ s.body.kind = "Inflate" <=> b % 16 = 8
                         /\ s.body.kind = "InflateRaw" <=> b % 16 # 8
                         /\ ~s.body.raw
                         /\ promise[h].state = "pending" => s.promise[h].state = "fulfilled"
            /\ ~body.raw => body.kind \in { "Inflate", "InflateRaw" }
            /\ promise[h].state = "fulfilled" => res[h].chunks >= 1 )
  /\ [][ \A h \in Hops :
           /\ ( /\ Deflated(h)'
                /\ promise[h].state # "fulfilled"
                /\ promise'[h].state = "fulfilled" ) =>
                /\ promise[h].state = "pending"
                /\ res[h].chunks = 0 /\ res'[h].chunks = 1
                /\ body.raw /\ ~body'.raw
                /\ \E b \in FirstBytes :
                     body'.kind = IF b % 16 = 8 THEN "Inflate" ELSE "InflateRaw"
           /\ promise[h].state = "fulfilled" => promise'[h] = promise[h] ]_vars

C36_Witness ==
  /\ Deflated(1)
  /\ response.encoding = "x-deflate"
  /\ body.kind = "InflateRaw"
  /\ res[1].chunks = 1
  /\ promise[1].state = "fulfilled"

\* ------------------------------------------- the errors that are built
\* the words of the messages FetchError is given
Words ==
  { NetMarker, "at", "ERR_CONNECTION_REFUSED", "ERR_EMPTY_RESPONSE",
    "ERR_NAME_NOT_RESOLVED", "ERR_CONTENT_DECODING_FAILED",
    "ERR_CONTENT_DECODING_INIT_FAILED", "ERR_FAILED" }
Messages == UNION { [ 1..n -> Words ] : n \in 0..MaxWords }
ErrorTypes == { "system", "test-error" }
\* a systemError: none, an error with a code, an error without one
SystemErrors == { NoSystemError, [ code |-> "ESOMEERROR" ], [ name |-> "Error" ] }

\* the types of the errors the fetch rejects with
RejectionTypes ==
  { "abort", "request-timeout", "proxy", "system", "no-redirect", "max-redirect",
    "invalid-redirect" }
\* request.url: of a URL of the exchange, and of one whose query holds
\* net::ERR_FAILED
Hrefs ==
  { formatURL(URL("http:", "a", "/p")),
    formatURL(URL("http:", "a", "/p")) \o << "?", NetMarker, "ERR_FAILED" >> }
TransportErrors ==
  { transportError(e, code) : e \in BOOLEAN, code \in { "ECONNREFUSED", "ECONNRESET" } }

InitError ==
  /\ Idle
  /\ made = NoMade
  /\ heap = NoHeap
  /\ \/ \E m \in Messages : \E t \in ErrorTypes : \E sys \in SystemErrors :
          thrown = [ step |-> "new", message |-> m, type |-> t, systemError |-> sys ]
     \/ \E t \in RejectionTypes : \E url \in Hrefs : \E err \in TransportErrors :
          thrown = [ step |-> "reject", type |-> t, url |-> url, err |-> err ]

\* a caller builds new FetchError(message, type, systemError)
NewFetchError ==
  /\ thrown.step = "new"
  /\ thrown' = [ step |-> "thrown", of |-> thrown,
                 error |-> FetchError(thrown.message, thrown.type, thrown.systemError) ]
  /\ UNCHANGED << fetchVars, bodies, source, made, heap >>

\* the fetch builds the error it rejects with
RejectWith ==
  /\ thrown.step = "reject"
  /\ thrown' = [ step |-> "rejected", of |-> thrown,
                 error |-> orchestratorError(thrown.type, thrown.url, thrown.err) ]
  /\ UNCHANGED << fetchVars, bodies, source, made, heap >>

NextError == NewFetchError \/ RejectWith

SpecError == InitError /\ [][NextError]_vars

\* the error of type system that the handlers of the exchange reject with is
\* the FetchError built from the whole message, for a URL without net::
SystemErrorOfExchange ==
  ( /\ thrown.step = "rejected"
    /\ thrown.of.type = "system"
    /\ \A i \in 1..Len(thrown.of.url) : thrown.of.url[i] # NetMarker ) =>
    /\ thrown.error.type = systemFetchError(thrown.of.err).type
    /\ thrown.error.code = systemFetchError(thrown.of.err).code
    /\ thrown.error.errno = systemFetchError(thrown.of.err).errno

\* the value the table gives for the name X of a net error
Entry(X) ==
  CASE X = "ERR_CONNECTION_REFUSED" -> "ECONNREFUSED"
    [] X = "ERR_EMPTY_RESPONSE" -> "ECONNRESET"
    [] X = "ERR_NAME_NOT_RESOLVED" -> "ENOTFOUND"
    [] X \in { "ERR_CONTENT_DECODING_FAILED", "ERR_CONTENT_DECODING_INIT_FAILED" } ->
         "Z_DATA_ERROR"
    [] OTHER -> X

\* the message is before \o << net:: >> \o after, and after holds no net::
HoldsNet(message, i) ==
  /\ i \in 1..Len(message)
  /\ message[i] = NetMarker
  /\ \A j \in (i + 1)..Len(message) : message[j] # NetMarker

\* C37: FetchError(message, type, systemError) keeps the message and the type
\* it is given and sets code and errno to the same value: for a message that
\* holds net::X, the entry of the table for X when X is one of its five names
\* and X itself otherwise; else, when systemError is given, systemError.code;
\* else neither code nor errno is set.
C37_FetchErrorCode ==
  thrown.step = "thrown" =>
    LET message == thrown.of.message
        systemError == thrown.of.systemError
        e == thrown.error
        net == \E i \in 1..Len(message) : message[i] = NetMarker
    IN /\ e.message = message
       /\ e.type = thrown.of.type
       /\ \A i \in 1..Len(message) : HoldsNet(message, i) =>
            LET X == text(SubSeq(message, i + 1, Len(message)))
            IN /\ DOMAIN e = { "message", "type", "code", "errno" }
               /\ e.code = Entry(X)
               /\ e.errno = Entry(X)
       /\ (~net /\ systemError # NoSystemError) =>
            /\ DOMAIN e = { "message", "type", "code", "errno" }
            /\ e.code = Field(systemError, "code", Undefined)
            /\ e.errno = e.code
       /\ (~net /\ systemError = NoSystemError) => DOMAIN e = { "message", "type" }

C37_Witness ==
  /\ thrown.step = "thrown"
  /\ thrown.of.message = << "at", NetMarker, "ERR_NAME_NOT_RESOLVED" >>
  /\ thrown.of.systemError = [ code |-> "ESOMEERROR" ]
  /\ thrown.error.code = "ENOTFOUND"
  /\ thrown.error.errno = "ENOTFOUND"

\* C38: an error the fetch rejects with that has the type request-timeout,
\* max-redirect, no-redirect, invalid-redirect or abort carries no code and
\* no errno, whatever the URL of the request is; the errors of type system
\* and proxy carry both.
C38_CodeOnlyForSystem ==
  thrown.step = "rejected" =>
    LET e == thrown.error
    IN /\ e.type = thrown.of.type
       /\ e.type \in { "request-timeout", "max-redirect", "no-redirect",
                       "invalid-redirect", "abort" } =>
            DOMAIN e \cap { "code", "errno" } = { }
       /\ e.type \in { "system", "proxy" } => { "code", "errno" } \subseteq DOMAIN e

\* C39: getNodeRequestOptions leaves the headers, the method, the body, the
\* URL, the counter and follow of the request as they were: the default
\* headers and the computed Content-Length are set on the copy of the
\* headers that is handed to the transport; chunkedEncoding is the only
\* field of the request it may change, and when it throws a TypeError the
\* request is as it was.
C39_RequestUnchanged ==
  made.step \in { "options", "TypeError" } =>
    /\ \A f \in DOMAIN Sent : made.after[f] = Sent[f]
    /\ DOMAIN made.after \ DOMAIN Sent \subseteq { "chunkedEncoding" }
    /\ made.after.headers = Sent.headers
    /\ made.after.contentLength = Sent.contentLength
    /\ made.step = "TypeError" => made.options.error # Null /\ made.after = Sent
    /\ made.step = "options" =>
         /\ made.options.headers.accept # Null
         /\ made.options.headers.userAgent # Null
         /\ made.options.headers.acceptEncoding = "gzip,deflate"
         /\ made.options.headers.connection # Null
         /\ "chunkedEncoding" \in DOMAIN made.after <=> made.options.chunkedEncoding

C39_Witness ==
  /\ made.step = "options"
  /\ Sent.body = "string"
  /\ Sent.contentLength = Null
  /\ Sent.headers = NoHeaders
  /\ made.options.contentLength = "3"
  /\ made.options.headers.accept = "*/*"
  /\ made.after = Sent

C39_Threw ==
  /\ made.step = "TypeError"
  /\ made.url.protocol = "ftp:"
  /\ Sent.method = "POST"
  /\ Sent.body = Null

====
